---- MODULE Spec2Model ----
(***************************************************************************)
(* The request executor of the langfuse client (langfuse/client.go), the   *)
(* service methods that delegate to it (langfuse/projects.go, prompts.go)  *)
(* and the configuration (langfuse/config.go).                             *)
(*                                                                         *)
(* Text is a sequence of chunks: a chunk is either one significant         *)
(* character ("%", a hex digit, "/") or a run of ordinary characters, so   *)
(* "\o" is Go's string concatenation and URL escapes can be inspected.     *)
(* An error is the chain of its wrapped messages, outermost first: "%w"    *)
(* wrapping prepends one element, and the nil error is the empty chain.    *)
(***************************************************************************)
EXTENDS Integers, Sequences, FiniteSets, TLC

VARIABLES
    client,   \* the Client: baseUrl, base64Token, and its transport's RetryMax
    op,       \* the public operation in progress ("none" between calls)
    args,     \* the (method, uri, payload) DoWithBody was called with
    pc,       \* position of the call: idle, sending, reading, done
    req,      \* the request built by DoWithBody (NoReq before it is built)
    i,        \* loop index of retryablehttp.Client.Do (retries made so far)
    hist,     \* what each attempt of this call got from the network, in order
    resp,     \* the response the transport handed back to DoWithBody
    open,     \* response bodies obtained by this call and not yet closed
    readErr,  \* io.ReadAll failed on the body of resp
    ret,      \* what DoWithBody returned: (body, err)
    out,      \* what the public operation returned to its caller
    wire,     \* the requests of this call as they went out, one per attempt
    config,   \* the package's config, written by LoadConfigFromEnvVars
    made,     \* the Config structs allocated by NewConfig, oldest first
    counting, \* the server is the one that counts the requests it receives
    requestCount, \* the counter of that server
    log,      \* per call completed against that server: (ok, requests it sent)
    other     \* the call of a second goroutine on the same client, while it is
              \* not the one taking steps

\* The state of one call.
callVars == <<op, args, pc, req, i, hist, resp, open, readErr, ret, out, wire>>

\* The state of the configuration.
cfgVars == <<config, made>>

\* The state of the counting server and of the loop that calls it.
seqVars == <<counting, requestCount, log>>

vars == <<client, op, args, pc, req, i, hist, resp, open, readErr, ret, out,
          wire, config, made, counting, requestCount, log, other>>

-----------------------------------------------------------------------------
(* Values *)

NoErr == <<>>

NoReq == [method |-> "", url |-> <<>>, hasBody |-> FALSE, body |-> <<>>, headers |-> <<>>]

NoResp == [kind |-> "none", status |-> 0, body |-> <<>>, cause |-> ""]

NoRet == [isNil |-> TRUE, body |-> <<>>, err |-> NoErr]

NoOut == [isNil |-> TRUE, value |-> <<>>, err |-> NoErr]

\* What a service method was called with, for the operations that are none.
NoGiven == <<>>

NoArgs == [method |-> "", uri |-> <<>>, payload |-> "nil", given |-> NoGiven]

\* One message of an error chain.
E(msg) == [msg |-> msg, status |-> 0, body |-> <<>>, attempts |-> 0]

\* fmt.Errorf("<prefix>: %w", err)
Wrap(prefix, err) == <<E(prefix)>> \o err

-----------------------------------------------------------------------------
(* Inputs *)

HexDigits == {"0", "1", "2", "3", "4", "5", "6", "7", "8", "9",
              "A", "B", "C", "D", "E", "F", "a", "b", "c", "d", "e", "f"}

ServerUrls == { <<"http://host">>, <<"http://host", "%">> }

\* The empty token and base64("pk:sk").
Tokens == { <<>>, <<"c", "G", "s", "6", "c", "2", "s", "=">> }

Methods == {"", "GET", "POST", "BAD METHOD"}

Uris == { <<"/test">>, <<"/test", "%", "2", "F", "x">>, <<"/test", "%", "z", "z">> }

\* "nil": no payload; "map": a value json.Marshal encodes; "chan": one it rejects.
Payloads == {"nil", "map", "chan"}

Statuses == {200, 399, 400, 429, 499, 500, 501, 599}

\* A JSON object and the empty body (which is not valid JSON).
Bodies == { <<"{", "x", "}">>, <<>> }

\* Failures of one round trip: the first is transient, the second is one of the
\* errors the retry policy treats as permanent.
NetErrors == {"connection refused", "unsupported protocol scheme"}

NetResults ==
    [kind : {"resp"}, status : Statuses, body : Bodies, cause : {""}]
        \cup [kind : {"err"}, status : {0}, body : {<<>>}, cause : NetErrors]

\* Bodies of a response to a service method: an object, an object with a member
\* of the wrong type, text that is not JSON, null, an array, nothing, and a
\* prompt with an empty list of labels and with one label.
ServiceBodies ==
    { <<"{", "x", "}">>, <<"{", "\"name\":1", "}">>, <<"invalid json {{{">>,
      <<"null">>, <<"[", "]">>, <<>>,
      <<"{", "\"labels\":", "[", "]", "}">>,
      <<"{", "\"labels\":", "[", "\"", "production", "\"", "]", "}">> }

\* What the network gives a service method: 200 with each of the bodies, one
\* response of each class of failure, a refused connection.
ServiceResults ==
    [kind : {"resp"}, status : {200}, body : ServiceBodies, cause : {""}]
        \cup [kind : {"resp"}, status : {404, 500}, body : {<<"{", "x", "}">>}, cause : {""}]
        \cup [kind : {"err"}, status : {0}, body : {<<>>}, cause : {"connection refused"}]

\* Names of prompts, labels ("" is no label) and versions (<<>> is a nil *int).
PromptNames ==
    { <<"my-prompt">>, <<"my", " ", "prompt", "/", "v1">>, <<"a", "#", "b", "?", "c", "%", "d">> }

Labels ==
    { <<>>, <<"production">>, <<"a", "&", "b">>, <<"x", "=", "1", "%", " ", "+">> }

\* A nil []string.
NilStrings == [isNil |-> TRUE, items |-> <<>>]

\* Lists of labels to set: nil, empty and not nil, one label, two labels.
LabelLists ==
    { NilStrings,
      [isNil |-> FALSE, items |-> <<>>],
      [isNil |-> FALSE, items |-> <<"production">>],
      [isNil |-> FALSE, items |-> <<"production", "latest">>] }

Versions == { <<>>, <<"0">>, <<"1">> }

-----------------------------------------------------------------------------
(* Configuration: langfuse/config.go *)

\* The byte of a character of the keys.
Ord(c) ==
    CASE c = "p" -> 112
      [] c = "k" -> 107
      [] c = "s" -> 115
      [] c = ":" -> 58

\* The character of a byte.
Chr(b) ==
    CASE b = 112 -> "p"
      [] b = 107 -> "k"
      [] b = 115 -> "s"
      [] b = 58 -> ":"
      [] OTHER -> "?"

\* []byte(text)
Bytes(text) == [k \in 1..Len(text) |-> Ord(text[k])]

\* The alphabet of base64.StdEncoding.
B64Chars ==
    <<"A", "B", "C", "D", "E", "F", "G", "H", "I", "J", "K", "L", "M",
      "N", "O", "P", "Q", "R", "S", "T", "U", "V", "W", "X", "Y", "Z",
      "a", "b", "c", "d", "e", "f", "g", "h", "i", "j", "k", "l", "m",
      "n", "o", "p", "q", "r", "s", "t", "u", "v", "w", "x", "y", "z",
      "0", "1", "2", "3", "4", "5", "6", "7", "8", "9", "+", "/">>

\* Up to three bytes as four characters, "=" padding the missing ones.
EncodeGroup(b) ==
    LET n == b[1] * 65536 + (IF Len(b) >= 2 THEN b[2] ELSE 0) * 256
                 + (IF Len(b) >= 3 THEN b[3] ELSE 0)
    IN  << B64Chars[(n \div 262144) + 1],
           B64Chars[((n \div 4096) % 64) + 1],
           IF Len(b) >= 2 THEN B64Chars[((n \div 64) % 64) + 1] ELSE "=",
           IF Len(b) >= 3 THEN B64Chars[(n % 64) + 1] ELSE "=" >>

RECURSIVE EncodeToString(_)
\* base64.StdEncoding.EncodeToString(bytes)
EncodeToString(b) ==
    IF b = <<>> THEN <<>>
    ELSE IF Len(b) <= 3 THEN EncodeGroup(b)
    ELSE EncodeGroup(SubSeq(b, 1, 3)) \o EncodeToString(SubSeq(b, 4, Len(b)))

\* The value of a base64 character.
B64Index(c) == CHOOSE n \in 0..63 : B64Chars[n + 1] = c

\* Four characters as up to three bytes.
DecodeGroup(g) ==
    LET pad == IF g[3] = "=" THEN 2 ELSE IF g[4] = "=" THEN 1 ELSE 0
        n == B64Index(g[1]) * 262144 + B64Index(g[2]) * 4096
                 + (IF pad < 2 THEN B64Index(g[3]) ELSE 0) * 64
                 + (IF pad < 1 THEN B64Index(g[4]) ELSE 0)
    IN  SubSeq(<<n \div 65536, (n \div 256) % 256, n % 256>>, 1, 3 - pad)

RECURSIVE DecodeString(_)
\* base64.StdEncoding.DecodeString(token), for a well-formed token
DecodeString(t) ==
    IF t = <<>> THEN <<>>
    ELSE DecodeGroup(SubSeq(t, 1, 4)) \o DecodeString(SubSeq(t, 5, Len(t)))

\* string(bytes)
String(b) == [k \in 1..Len(b) |-> Chr(b[k])]

Token_NoSeparator(publicKey, secretKey) == EncodeToString(Bytes(publicKey \o secretKey))

\* base64.StdEncoding.EncodeToString([]byte(fmt.Sprintf("%s:%s", publicKey, secretKey)))
Token(publicKey, secretKey) == EncodeToString(Bytes(publicKey \o <<":">> \o secretKey))

\* Server URLs, public keys and secret keys; the empty text is a missing value
\* (an argument "", an environment variable unset or set to "").
CfgUrls == { <<>>, <<"http://host">>, <<"http://other">> }

PublicKeys == { <<>>, <<"p">>, <<"p", "k">> }

SecretKeys == { <<>>, <<"s">>, <<"s", "k">> }

\* The environment, as far as LoadConfigFromEnvVars reads it.
Envs ==
    [LANGFUSE_SERVER_URL : CfgUrls,
     LANGFUSE_PUBLIC_KEY : PublicKeys,
     LANGFUSE_SECRET_KEY : SecretKeys]

\* Config structs allocated by NewConfig that the process holds on to.
MaxConfigs == 2

\* The zero Config.
ZeroConfig == [ServerUrl |-> <<>>, PublicKey |-> <<>>, SecretKey |-> <<>>, Base64Token |-> <<>>]

\* validateConfig(cfg): the error it returns and the struct as it leaves it.
validateConfig(cfg) ==
    IF cfg.ServerUrl = <<>>
    THEN [err |-> <<E("LANGFUSE_SERVER_URL is required")>>, cfg |-> cfg]
    ELSE IF cfg.PublicKey = <<>>
    THEN [err |-> <<E("LANGFUSE_PUBLIC_KEY is required")>>, cfg |-> cfg]
    ELSE IF cfg.SecretKey = <<>>
    THEN [err |-> <<E("LANGFUSE_SECRET_KEY is required")>>, cfg |-> cfg]
    ELSE [err |-> NoErr,
          cfg |-> IF cfg.PublicKey # <<>> /\ cfg.SecretKey # <<>>
                  THEN [cfg EXCEPT !.Base64Token = Token(cfg.PublicKey, cfg.SecretKey)]
                  ELSE cfg]

\* NewConfig(serverUrl, publicKey, secretKey): (*Config, error)
NewConfigResult(serverUrl, publicKey, secretKey) ==
    LET c0 == [ZeroConfig EXCEPT !.ServerUrl = serverUrl,
                                 !.PublicKey = publicKey,
                                 !.SecretKey = secretKey]
        c1 == IF c0.PublicKey # <<>> /\ c0.SecretKey # <<>>
              THEN [c0 EXCEPT !.Base64Token = Token(c0.PublicKey, c0.SecretKey)]
              ELSE c0
        v == validateConfig(c1)
    IN  IF v.err # NoErr
        THEN [isNil |-> TRUE, value |-> ZeroConfig, err |-> v.err]
        ELSE [isNil |-> FALSE, value |-> v.cfg, err |-> NoErr]

ViperUnmarshal_KeepsFirst(e, cfg) ==
    [ServerUrl |-> IF cfg.ServerUrl = <<>> THEN e.LANGFUSE_SERVER_URL ELSE cfg.ServerUrl,
     PublicKey |-> IF cfg.PublicKey = <<>> THEN e.LANGFUSE_PUBLIC_KEY ELSE cfg.PublicKey,
     SecretKey |-> IF cfg.SecretKey = <<>> THEN e.LANGFUSE_SECRET_KEY ELSE cfg.SecretKey,
     Base64Token |-> cfg.Base64Token]

\* viper.Unmarshal(&config) after the three BindEnv calls: a variable that is
\* set and not empty is written to its field; the field of an unset or empty
\* variable, and Base64Token, are left as they are.
ViperUnmarshal(e, cfg) ==
    [ServerUrl |-> IF e.LANGFUSE_SERVER_URL # <<>> THEN e.LANGFUSE_SERVER_URL ELSE cfg.ServerUrl,
     PublicKey |-> IF e.LANGFUSE_PUBLIC_KEY # <<>> THEN e.LANGFUSE_PUBLIC_KEY ELSE cfg.PublicKey,
     SecretKey |-> IF e.LANGFUSE_SECRET_KEY # <<>> THEN e.LANGFUSE_SECRET_KEY ELSE cfg.SecretKey,
     Base64Token |-> cfg.Base64Token]

\* LoadConfigFromEnvVars() with the environment e and the package's config cfg:
\* the error it returns and the package's config as it leaves it.
LoadResult(e, cfg) ==
    LET v == validateConfig(ViperUnmarshal(e, cfg))
    IN  IF v.err # NoErr
        THEN [err |-> Wrap("error validating config", v.err), cfg |-> v.cfg]
        ELSE [err |-> NoErr, cfg |-> v.cfg]

-----------------------------------------------------------------------------
(* Construction *)

\* Iterations of a loop of sequential calls on one client.
MaxCalls == 3

\* retryClient.RetryMax of NewClient and NewClientWithConfig
RetryMax == 3

\* retryClient.RetryMax of the clients the package's tests build
TestRetryMax == 1

\* The client NewClientWithConfig builds from a Config.
NewClientWithConfig(cfg) ==
    [baseUrl |-> cfg.ServerUrl, base64Token |-> cfg.Base64Token, retryMax |-> RetryMax]

\* The client the tests build around a test server.
setupTestClient(url) ==
    [baseUrl |-> url,
     base64Token |-> <<"dGVzdC1wdWJsaWMta2V5OnRlc3Qtc2VjcmV0LWtleQ==">>,
     retryMax |-> TestRetryMax]

Configs == [ServerUrl : ServerUrls, Base64Token : Tokens]

Clients ==
    {NewClientWithConfig(cfg) : cfg \in Configs} \cup {setupTestClient(<<"http://host">>)}

-----------------------------------------------------------------------------
(* DoWithBody up to the dispatch of the request *)

\* json.Marshal(payload)
Marshal(payload) ==
    IF payload = "chan"
    THEN [err |-> <<E("json: unsupported type")>>, data |-> <<>>]
    ELSE [err |-> NoErr, data |-> <<payload>>]

\* json.Marshal of a []string: null for a nil slice, otherwise the array of the
\* strings, which is [] for an empty slice.
RECURSIVE MarshalItems(_)
MarshalItems(items) ==
    IF items = <<>> THEN <<>>
    ELSE <<"\"", Head(items), "\"">>
             \o (IF Len(items) > 1 THEN <<",">> ELSE <<>>) \o MarshalItems(Tail(items))

MarshalStrings(list) ==
    IF list.isNil THEN <<"null">> ELSE <<"[">> \o MarshalItems(list.items) \o <<"]">>

\* json.Marshal(UpdatePromptVersionLabelsRequest{NewLabels: newLabels}): the
\* member has no omitempty, so it is always written.
MarshalRequest(newLabels) ==
    <<"{", "\"newLabels\":">> \o MarshalStrings(newLabels) \o <<"}">>

\* A method net/http accepts: a non-empty token.
validMethod(method) == method \in {"GET", "POST", "PATCH", "PUT", "DELETE", "HEAD"}

\* What url.Parse requires of escapes: every "%" is followed by two hex digits.
ValidEscapes(u) ==
    \A k \in 1..Len(u) :
        u[k] = "%" => (k + 2 <= Len(u) /\ u[k + 1] \in HexDigits /\ u[k + 2] \in HexDigits)

\* The character a valid escape %h1h2 stands for.
HexChar(h1, h2) ==
    CASE <<h1, h2>> = <<"2", "0">> -> " "
      [] <<h1, h2>> = <<"2", "F">> -> "/"
      [] <<h1, h2>> = <<"3", "F">> -> "?"
      [] <<h1, h2>> = <<"2", "3">> -> "#"
      [] <<h1, h2>> = <<"2", "5">> -> "%"
      [] <<h1, h2>> = <<"2", "6">> -> "&"
      [] <<h1, h2>> = <<"3", "D">> -> "="
      [] <<h1, h2>> = <<"2", "B">> -> "+"
      [] OTHER -> "<byte>"

RECURSIVE PathUnescape(_)
\* url.PathUnescape(s), for s with valid escapes: each %h1h2 becomes its character.
PathUnescape(t) ==
    IF t = <<>> THEN <<>>
    ELSE IF Head(t) = "%" /\ Len(t) >= 3
    THEN <<HexChar(t[2], t[3])>> \o PathUnescape(SubSeq(t, 4, Len(t)))
    ELSE <<Head(t)>> \o PathUnescape(Tail(t))

RECURSIVE EscapePath(_)
\* The default encoding of a whole path (net/url's encodePath): a space, "?", "#"
\* and "%" are percent-encoded, "/" is not.
EscapePath(path) ==
    IF path = <<>> THEN <<>>
    ELSE LET c == Head(path)
             e == CASE c = " " -> <<"%", "2", "0">>
                    [] c = "?" -> <<"%", "3", "F">>
                    [] c = "#" -> <<"%", "2", "3">>
                    [] c = "%" -> <<"%", "2", "5">>
                    [] OTHER -> <<c>>
         IN  e \o EscapePath(Tail(path))

\* The index of the first chunk c of t, Len(t) + 1 when there is none.
IndexOf(t, c) ==
    IF \E k \in 1..Len(t) : t[k] = c
    THEN CHOOSE k \in 1..Len(t) : t[k] = c /\ \A j \in 1..(k - 1) : t[j] # c
    ELSE Len(t) + 1

\* url.Parse(rawURL) of what follows the host: the fragment is cut off at the
\* first "#", the query at the first "?", and the rest is the path, kept decoded
\* in Path and, when it is not the default encoding of Path, as written in RawPath.
Parse(raw) ==
    LET u == SubSeq(raw, 1, IndexOf(raw, "#") - 1)
        q == IndexOf(u, "?")
        p == SubSeq(u, 1, q - 1)
        path == PathUnescape(p)
    IN  [Path |-> path,
         RawPath |-> IF EscapePath(path) = p THEN <<>> ELSE p,
         ForceQuery |-> q = Len(u) /\ Len(u) > 0,
         RawQuery |-> SubSeq(u, q + 1, Len(u))]

\* RawPath is a valid encoding: it holds no character that has to be escaped.
validEncoded(raw) == \A k \in 1..Len(raw) : raw[k] \notin {" ", "?", "#"}

\* URL.EscapedPath(): RawPath when it is a valid encoding of Path, else the
\* default encoding of Path.
EscapedPath(u) ==
    IF u.RawPath # <<>> /\ validEncoded(u.RawPath) /\ PathUnescape(u.RawPath) = u.Path
    THEN u.RawPath
    ELSE EscapePath(u.Path)

\* URL.RequestURI(): the path and query of the request line.
RequestURI(u) ==
    EscapedPath(u)
        \o (IF u.ForceQuery \/ u.RawQuery # <<>> THEN <<"?">> \o u.RawQuery ELSE <<>>)

OnWire_Reencode(r) ==
    IF r.url = <<>> THEN r
    ELSE LET u == Parse(Tail(r.url))
         IN  [r EXCEPT !.url = <<Head(r.url)>> \o EscapePath(u.Path)
                  \o (IF u.RawQuery # <<>> THEN <<"?">> \o u.RawQuery ELSE <<>>)]

\* The request as the transport writes it: its URL has gone through url.Parse
\* and is written with RequestURI after the host.
OnWire(r) ==
    IF r.url = <<>> THEN r
    ELSE [r EXCEPT !.url = <<Head(r.url)>> \o RequestURI(Parse(Tail(r.url)))]

\* retryablehttp.NewRequest(method, url, body)
NewRequest(method, url, hasBody) ==
    IF ~validMethod(method)
    THEN [err |-> <<E("net/http: invalid method")>>, req |-> NoReq]
    ELSE IF ~ValidEscapes(url)
    THEN [err |-> <<E("invalid URL escape")>>, req |-> NoReq]
    ELSE [err |-> NoErr,
          req |-> [method |-> method, url |-> url, hasBody |-> hasBody,
                   body |-> <<>>, headers |-> <<>>]]

\* method == "" defaults to GET
DefaultMethod(method) == IF method = "" THEN "GET" ELSE method

SetHeaders_NoAuthorization(r, token) ==
    [r EXCEPT !.headers = << <<"Content-Type", "application/json", "">>,
                             <<"Accept", "*/*", "">>,
                             <<"User-Agent", "go-langfuse-client", "v1.0.0">> >>]

\* The four req.Header.Set calls.
SetHeaders(r, token) ==
    [r EXCEPT !.headers = << <<"Authorization", "Basic", token>>,
                             <<"Content-Type", "application/json", "">>,
                             <<"Accept", "*/*", "">>,
                             <<"User-Agent", "go-langfuse-client", "v1.0.0">> >>]

\* Mutant: the token check is missing.
EarlyError_NoTokenCheck(c, method, uri, payload) ==
    LET m == Marshal(payload)
        r == NewRequest(DefaultMethod(method), c.baseUrl \o uri, payload # "nil")
    IN  IF payload # "nil" /\ m.err # NoErr
        THEN Wrap("error marshalling request body", m.err)
        ELSE IF r.err # NoErr
        THEN Wrap("error creating request", r.err)
        ELSE NoErr

\* Mutant: the token is checked before the payload is marshalled.
EarlyError_TokenFirst(c, method, uri, payload) ==
    LET m == Marshal(payload)
        r == NewRequest(DefaultMethod(method), c.baseUrl \o uri, payload # "nil")
    IN  IF c.base64Token = <<>>
        THEN <<E("Base64 token is required")>>
        ELSE IF payload # "nil" /\ m.err # NoErr
        THEN Wrap("error marshalling request body", m.err)
        ELSE IF r.err # NoErr
        THEN Wrap("error creating request", r.err)
        ELSE NoErr

\* The error DoWithBody returns before anything is sent, NoErr when it goes on to
\* dispatch: marshalling, then request construction, then the token check.
EarlyError(c, method, uri, payload) ==
    LET m == Marshal(payload)
        r == NewRequest(DefaultMethod(method), c.baseUrl \o uri, payload # "nil")
    IN  IF payload # "nil" /\ m.err # NoErr
        THEN Wrap("error marshalling request body", m.err)
        ELSE IF r.err # NoErr
        THEN Wrap("error creating request", r.err)
        ELSE IF c.base64Token = <<>>
        THEN <<E("Base64 token is required")>>
        ELSE NoErr

\* return nil, err
Fail(err) == [isNil |-> TRUE, body |-> <<>>, err |-> err]

-----------------------------------------------------------------------------
(* The transport: retryablehttp.Client.Do as NewClient configures it:        *)
(* CheckRetry = DefaultRetryPolicy, RetryMax retries, no ErrorHandler. Each *)
(* round of its loop sends the request and asks the policy; a retry first   *)
(* drains and closes the response. When it stops without a response it may  *)
(* hand back, it closes the last response and returns only an error. The    *)
(* backoff sleep between two rounds takes time and changes no state.        *)

\* The round-trip errors DefaultRetryPolicy does not retry (too many redirects,
\* unsupported scheme, invalid header, untrusted certificate).
PermanentErrors == {"unsupported protocol scheme"}

\* retryClient.CheckRetry: should the attempt that got r be retried?
DefaultRetryPolicy(r) ==
    IF r.kind = "err"
    THEN r.cause \notin PermanentErrors
    ELSE r.status = 429 \/ r.status = 0 \/ (r.status >= 500 /\ r.status # 501)

\* Mutant: one retry too few (RetryMax read as the number of attempts).
Retries_OneFewer(c, idx, r) == DefaultRetryPolicy(r) /\ c.retryMax - idx > 1

\* Mutant: the first attempt is always sent again.
Retries_FirstTwice(c, idx, r) ==
    c.retryMax - idx > 0 /\ (idx = 0 \/ DefaultRetryPolicy(r))

Retries_OneMore(c, idx, r) == DefaultRetryPolicy(r) /\ c.retryMax - idx > -1

\* The loop goes round again: the policy asks for a retry and retries remain.
Retries(c, idx, r) == DefaultRetryPolicy(r) /\ c.retryMax - idx > 0

\* Mutant: the last response is handed back even when the policy still wanted a
\* retry (a pass-through error handler).
HandsBack_Passthrough(r) == r.kind = "resp"

\* The transport hands the response to its caller: no error and no retry wanted.
HandsBack(r) == r.kind = "resp" /\ ~DefaultRetryPolicy(r)

\* The error the transport returns when it gives up after n attempts, the last of
\* which got r: "giving up after n attempt(s)", wrapping the round-trip error if any.
GivingUp(n, r) ==
    <<[E("giving up after attempt(s)") EXCEPT !.attempts = n]>>
        \o (IF r.kind = "err" THEN <<E(r.cause)>> ELSE NoErr)

\* drainBody reads what is left of a body and closes it.
drainBody(n) == n - 1

-----------------------------------------------------------------------------
(* DoWithBody after the transport returned *)

\* Mutant: the read stops one chunk short.
ReadAll_Truncated(body, readOk) ==
    IF readOk
    THEN [err |-> NoErr, body |-> IF body = <<>> THEN body ELSE SubSeq(body, 1, Len(body) - 1)]
    ELSE [err |-> <<E("unexpected EOF")>>, body |-> <<>>]

\* io.ReadAll(resp.Body): the bytes as received, or a read failure.
ReadAll(body, readOk) ==
    IF readOk
    THEN [err |-> NoErr, body |-> body]
    ELSE [err |-> <<E("unexpected EOF")>>, body |-> <<>>]

\* The classification of the response by its status.
Classify(r, readOk) ==
    LET rd == ReadAll(r.body, readOk)
    IN  IF rd.err # NoErr
        THEN Fail(Wrap("error reading response body", rd.err))
        ELSE IF r.status >= 400 /\ r.status < 500
        THEN Fail(<<[E("client error") EXCEPT !.status = r.status, !.body = rd.body]>>)
        ELSE IF r.status >= 500
        THEN Fail(<<[E("server error") EXCEPT !.status = r.status, !.body = rd.body]>>)
        ELSE [isNil |-> FALSE, body |-> rd.body, err |-> NoErr]

\* Mutant: the deferred close is missing.
CloseBody_Missing(n) == n

\* The deferred resp.Body.Close().
CloseBody(n) == n - 1

-----------------------------------------------------------------------------
(* The public operations *)

\* json.Unmarshal(body, &v) as far as it does not depend on the type of v: the
\* members of a top-level object, "null" (no error, v left as it was), or the
\* error for a top-level array, for no input or for anything else.
Unmarshal(body) ==
    IF Len(body) >= 2 /\ body[1] = "{" /\ body[Len(body)] = "}"
    THEN [err |-> NoErr, null |-> FALSE, value |-> SubSeq(body, 2, Len(body) - 1)]
    ELSE IF body = <<"null">>
    THEN [err |-> NoErr, null |-> TRUE, value |-> <<>>]
    ELSE IF Len(body) >= 2 /\ body[1] = "[" /\ body[Len(body)] = "]"
    THEN [err |-> <<E("json: cannot unmarshal array into Go value")>>,
          null |-> FALSE, value |-> <<>>]
    ELSE IF body = <<>>
    THEN [err |-> <<E("unexpected end of JSON input")>>, null |-> FALSE, value |-> <<>>]
    ELSE [err |-> <<E("invalid character")>>, null |-> FALSE, value |-> <<>>]

\* A member whose value cannot go into the field of Prompt it names.
MistypedMember == "\"name\":1"

\* json.Unmarshal(body, &m) for var m map[string]interface{}: (m == nil, m, err).
\* "null" leaves the map nil.
UnmarshalMap(body) ==
    LET u == Unmarshal(body)
    IN  [isNil |-> u.err # NoErr \/ u.null, value |-> u.value, err |-> u.err]

\* json.Unmarshal(body, &p) for var p Prompt, returned as &p: members that name
\* no field are ignored and fields without a member stay zero; a member of the
\* wrong type is an error; "null" leaves the zero Prompt.
UnmarshalPrompt(body) ==
    LET u == Unmarshal(body)
    IN  IF u.err # NoErr
        THEN [isNil |-> TRUE, value |-> <<>>, err |-> u.err]
        ELSE IF \E k \in 1..Len(u.value) : u.value[k] = MistypedMember
        THEN [isNil |-> TRUE, value |-> <<>>,
              err |-> <<E("json: cannot unmarshal number into Go struct field")>>]
        ELSE [isNil |-> FALSE, value |-> u.value, err |-> NoErr]

ServiceReturn_Swallow(fetch, decode, d, r) ==
    IF r.err # NoErr
    THEN [isNil |-> FALSE, value |-> r.body, err |-> NoErr]
    ELSE IF d.err # NoErr
    THEN [isNil |-> TRUE, value |-> <<>>, err |-> Wrap(decode, d.err)]
    ELSE [isNil |-> d.isNil, value |-> d.value, err |-> NoErr]

ServiceReturn_Unwrapped(fetch, decode, d, r) ==
    IF r.err # NoErr
    THEN [isNil |-> TRUE, value |-> <<>>, err |-> r.err]
    ELSE IF d.err # NoErr
    THEN [isNil |-> TRUE, value |-> <<>>, err |-> Wrap(decode, d.err)]
    ELSE [isNil |-> d.isNil, value |-> d.value, err |-> NoErr]

ServiceReturn_PartialOnDecodeError(fetch, decode, d, r) ==
    IF r.err # NoErr
    THEN [isNil |-> TRUE, value |-> <<>>, err |-> Wrap(fetch, r.err)]
    ELSE IF d.err # NoErr
    THEN [isNil |-> FALSE, value |-> r.body, err |-> Wrap(decode, d.err)]
    ELSE [isNil |-> d.isNil, value |-> d.value, err |-> NoErr]

\* The tail every service method shares, given what the executor returned (r)
\* and what decoding the body gives (d): the executor's error wrapped with the
\* method's prefix, or the decoding error wrapped with its prefix, both with a
\* nil result, or the decoded value.
ServiceReturn(fetch, decode, d, r) ==
    IF r.err # NoErr
    THEN [isNil |-> TRUE, value |-> <<>>, err |-> Wrap(fetch, r.err)]
    ELSE IF d.err # NoErr
    THEN [isNil |-> TRUE, value |-> <<>>, err |-> Wrap(decode, d.err)]
    ELSE [isNil |-> d.isNil, value |-> d.value, err |-> NoErr]

\* The strings of a JSON array from its first element on.
RECURSIVE UnmarshalItems(_)
UnmarshalItems(t) ==
    IF t = <<>> \/ Head(t) = "]" THEN <<>>
    ELSE IF Head(t) = "\"" /\ Len(t) >= 3
    THEN <<t[2]>> \o UnmarshalItems(SubSeq(t, 4, Len(t)))
    ELSE UnmarshalItems(Tail(t))

UnmarshalStrings_NilWhenEmpty(t) ==
    IF t = <<>> \/ Head(t) = "null" \/ UnmarshalItems(Tail(t)) = <<>> THEN NilStrings
    ELSE [isNil |-> FALSE, items |-> UnmarshalItems(Tail(t))]

\* json.Unmarshal of a JSON value into a []string that is nil: null leaves it
\* nil, an array makes a slice that is not nil, of length 0 for [].
UnmarshalStrings(t) ==
    IF t = <<>> \/ Head(t) = "null" THEN NilStrings
    ELSE [isNil |-> FALSE, items |-> UnmarshalItems(Tail(t))]

\* The field Labels of the Prompt decoded from the members of an object: nil
\* without the member "labels".
PromptLabels(members) ==
    LET k == CHOOSE j \in 1..(Len(members) + 1) :
                 /\ j <= Len(members) => members[j] = "\"labels\":"
                 /\ \A h \in 1..(j - 1) : members[h] # "\"labels\":"
    IN  IF k > Len(members) THEN NilStrings
        ELSE UnmarshalStrings(SubSeq(members, k + 1, Len(members)))

\* ProjectsService.GetProject, given what Do returned.
GetProjectReturn(r) ==
    ServiceReturn("error fetching project",
                  "error unmarshalling ArgoCD application data", UnmarshalMap(r.body), r)

\* PromptsService.GetPrompts, given what Do returned.
GetPromptsReturn(r) ==
    ServiceReturn("error fetching prompts",
                  "error unmarshalling prompts data", UnmarshalMap(r.body), r)

\* PromptsService.GetPromptByName, given what Do returned.
GetPromptByNameReturn(r) ==
    ServiceReturn("error fetching prompt by name",
                  "error unmarshalling prompt data", UnmarshalPrompt(r.body), r)

\* PromptsService.CreatePrompt, given what DoWithBody returned.
CreatePromptReturn(r) ==
    ServiceReturn("error creating prompt",
                  "error unmarshalling created prompt data", UnmarshalPrompt(r.body), r)

\* PromptsService.UpdatePromptVersionLabels, given what DoWithBody returned.
UpdatePromptVersionLabelsReturn(r) ==
    ServiceReturn("error updating prompt version labels",
                  "error unmarshalling updated prompt data", UnmarshalPrompt(r.body), r)

\* What the public operation o returns once DoWithBody returned r.
Finish(o, r) ==
    CASE o = "GetProject" -> GetProjectReturn(r)
      [] o = "GetPrompts" -> GetPromptsReturn(r)
      [] o = "GetPromptByName" -> GetPromptByNameReturn(r)
      [] o = "CreatePrompt" -> CreatePromptReturn(r)
      [] o = "UpdatePromptVersionLabels" -> UpdatePromptVersionLabelsReturn(r)
      [] OTHER -> [isNil |-> r.isNil, value |-> r.body, err |-> r.err]

Receiver_ReadsConfig(c, cfg) ==
    [c EXCEPT !.baseUrl = cfg.ServerUrl, !.base64Token = cfg.Base64Token]

\* The fields DoWithBody reads for its URL and its token: those of its receiver
\* c, whatever the package's config cfg holds by now.
Receiver(c, cfg) == c

\* DoWithBody from its entry to the dispatch of the request, on behalf of o,
\* which was called with given.
Call(o, method, uri, payload, given) ==
    LET c == Receiver(client, config)
        early == EarlyError(c, method, uri, payload)
        made0 == NewRequest(DefaultMethod(method), c.baseUrl \o uri,
                            payload # "nil")
        built == IF Marshal(payload).err # NoErr \/ made0.err # NoErr
                 THEN NoReq
                 ELSE [made0.req EXCEPT
                           !.body = IF payload = "labels"
                                    THEN MarshalRequest(given.newLabels)
                                    ELSE IF payload # "nil" THEN Marshal(payload).data
                                    ELSE <<>>]
    IN  /\ pc = "idle"
        /\ op' = o
        /\ args' = [method |-> method, uri |-> uri, payload |-> payload,
                    given |-> given]
        /\ counting => Len(log) < MaxCalls
        /\ i' = 0
        /\ hist' = <<>>
        /\ wire' = <<>>
        /\ resp' = NoResp
        /\ open' = 0
        /\ readErr' = FALSE
        /\ IF early # NoErr
           THEN /\ pc' = "done"
                /\ req' = built
                /\ ret' = Fail(early)
                /\ out' = Finish(o, Fail(early))
           ELSE /\ pc' = "sending"
                /\ req' = SetHeaders(built, c.base64Token)
                /\ ret' = NoRet
                /\ out' = NoOut
        /\ UNCHANGED <<client, other, cfgVars, seqVars>>

\* DoWithBody called directly or through Do.
Enter(o, method, uri, payload) == Call(o, method, uri, payload, NoGiven)

\* Client.Do(method, uri)
Do(method, uri) == Enter("Do", method, uri, "nil")

\* Client.DoWithBody(method, uri, payload)
DoWithBody(method, uri, payload) == Enter("DoWithBody", method, uri, payload)

\* ProjectsService.GetProject()
GetProject == Enter("GetProject", "GET", <<"/api/public/projects">>, "nil")

RECURSIVE PathEscape(_)
\* url.PathEscape(name): a space, "/", "?", "#" and "%" are percent-encoded.
PathEscape(name) ==
    IF name = <<>> THEN <<>>
    ELSE LET c == Head(name)
             e == CASE c = " " -> <<"%", "2", "0">>
                    [] c = "/" -> <<"%", "2", "F">>
                    [] c = "?" -> <<"%", "3", "F">>
                    [] c = "#" -> <<"%", "2", "3">>
                    [] c = "%" -> <<"%", "2", "5">>
                    [] OTHER -> <<c>>
         IN  e \o PathEscape(Tail(name))

QueryEscape_Raw(value) == value

RECURSIVE QueryEscape(_)
\* url.QueryEscape(value): a space becomes "+", "&", "=", "+" and "%" are
\* percent-encoded.
QueryEscape(value) ==
    IF value = <<>> THEN <<>>
    ELSE LET c == Head(value)
             e == CASE c = " " -> <<"+">>
                    [] c = "&" -> <<"%", "2", "6">>
                    [] c = "=" -> <<"%", "3", "D">>
                    [] c = "+" -> <<"%", "2", "B">>
                    [] c = "%" -> <<"%", "2", "5">>
                    [] OTHER -> <<c>>
         IN  e \o QueryEscape(Tail(value))

Encode_Always(label, version) ==
    <<"label", "=">> \o QueryEscape(label) \o <<"&", "version", "=">> \o QueryEscape(version)

\* url.Values{}.Encode() of the label and the version that were set: sorted by
\* key, joined with "&".
Encode(label, version) ==
    LET l == IF label # <<>> THEN <<"label", "=">> \o QueryEscape(label) ELSE <<>>
        v == IF version # <<>> THEN <<"version", "=">> \o QueryEscape(version) ELSE <<>>
    IN  IF l # <<>> /\ v # <<>> THEN l \o <<"&">> \o v ELSE l \o v

\* The path and query GetPromptByName asks for.
PromptUri(name, label, version) ==
    LET q == Encode(label, version)
    IN  <<"/api/public/v2/prompts/">> \o PathEscape(name)
            \o (IF q # <<>> THEN <<"?">> \o q ELSE <<>>)

\* PromptsService.GetPrompts()
GetPrompts == Enter("GetPrompts", "GET", <<"/api/public/v2/prompts">>, "nil")

\* PromptsService.GetPromptByName(name, label, version)
GetPromptByName(name, label, version) ==
    Call("GetPromptByName", "GET", PromptUri(name, label, version), "nil",
         [name |-> name, label |-> label, version |-> version])

\* PromptsService.CreatePrompt(prompt): "prompt" is a Prompt json.Marshal
\* encodes, "chan" one whose Config or Prompt holds a value it rejects.
CreatePrompt(prompt) ==
    Enter("CreatePrompt", "POST", <<"/api/public/v2/prompts">>, prompt)

\* PromptsService.UpdatePromptVersionLabels(name, version, newLabels)
UpdatePromptVersionLabels(name, version, newLabels) ==
    Call("UpdatePromptVersionLabels", "PATCH",
         <<"/api/public/v2/prompts/">> \o PathEscape(name) \o <<"/versions/">> \o version,
         "labels", [name |-> name, version |-> version, newLabels |-> newLabels])

\* One iteration of the transport's loop: the request is sent and gets r. Either
\* the loop goes round again (the body, if any, is drained), or the transport
\* returns: the response to DoWithBody, or an error after closing the body.
Attempt(r) ==
    /\ pc = "sending"
    /\ hist' = Append(hist, r)
    /\ wire' = Append(wire, OnWire(req))
    /\ requestCount' = IF counting /\ r.kind = "resp" THEN requestCount + 1
                       ELSE requestCount
    /\ IF Retries(client, i, r)
       THEN /\ i' = i + 1
            /\ open' = IF r.kind = "resp" THEN drainBody(open + 1) ELSE open
            /\ UNCHANGED <<pc, resp, ret, out>>
       ELSE IF HandsBack(r)
       THEN /\ pc' = "reading"
            /\ resp' = r
            /\ open' = open + 1
            /\ UNCHANGED <<i, ret, out>>
       ELSE LET err == Wrap("error making request", GivingUp(Len(hist) + 1, r))
            IN  /\ pc' = "done"
                /\ open' = IF r.kind = "resp" THEN drainBody(open + 1) ELSE open
                /\ ret' = Fail(err)
                /\ out' = Finish(op, Fail(err))
                /\ UNCHANGED <<i, resp>>
    /\ UNCHANGED <<client, other, op, args, req, readErr, cfgVars, counting, log>>

\* DoWithBody from the transport's return to its own: the body is read, the
\* response classified, and the deferred close runs.
ReadBody(readOk) ==
    /\ pc = "reading"
    /\ pc' = "done"
    /\ ret' = Classify(resp, readOk)
    /\ out' = Finish(op, Classify(resp, readOk))
    /\ open' = CloseBody(open)
    /\ readErr' = ~readOk
    /\ UNCHANGED <<client, other, op, args, req, i, hist, resp, wire, cfgVars, seqVars>>

\* The caller takes the result; the client is ready for the next call.
Return ==
    /\ pc = "done"
    /\ pc' = "idle"
    /\ op' = "none"
    /\ args' = NoArgs
    /\ req' = NoReq
    /\ i' = 0
    /\ hist' = <<>>
    /\ resp' = NoResp
    /\ open' = 0
    /\ readErr' = FALSE
    /\ ret' = NoRet
    /\ out' = NoOut
    /\ wire' = <<>>
    /\ log' = IF counting
              THEN Append(log, [ok |-> out.err = NoErr, sent |-> Len(hist)])
              ELSE log
    /\ UNCHANGED <<client, other, cfgVars, counting, requestCount>>

-----------------------------------------------------------------------------
(* The configuration operations *)

\* A call that completes in one step: operation o with arguments a returns r.
Complete(o, a, r) ==
    /\ pc = "idle"
    /\ op' = o
    /\ args' = a
    /\ pc' = "done"
    /\ out' = r
    /\ UNCHANGED <<client, other, req, i, hist, resp, open, readErr, ret, wire, seqVars>>

Alloc_Shared(heap, cfg) == IF heap = <<>> THEN <<cfg>> ELSE [heap EXCEPT ![1] = cfg]

\* &Config{...}: a struct of its own on the heap.
Alloc(heap, cfg) == Append(heap, cfg)

\* NewConfig(serverUrl, publicKey, secretKey)
NewConfig(serverUrl, publicKey, secretKey) ==
    LET r == NewConfigResult(serverUrl, publicKey, secretKey)
    IN  /\ Len(made) < MaxConfigs
        /\ Complete("NewConfig",
                    [serverUrl |-> serverUrl, publicKey |-> publicKey,
                     secretKey |-> secretKey], r)
        /\ made' = IF r.isNil THEN made ELSE Alloc(made, r.value)
        /\ UNCHANGED config

\* LoadConfigFromEnvVars() in the environment e.
LoadConfigFromEnvVars(e) ==
    LET r == LoadResult(e, config)
    IN  /\ Complete("LoadConfigFromEnvVars", e,
                    [isNil |-> TRUE, value |-> <<>>, err |-> r.err])
        /\ config' = r.cfg
        /\ UNCHANGED made

\* The structs validateConfig is given.
ConfigStructs ==
    [ServerUrl : CfgUrls, PublicKey : PublicKeys, SecretKey : SecretKeys,
     Base64Token : { <<>>, Token(<<"p">>, <<"s">>) }]

\* validateConfig(&cfg) on a struct of the caller; out.value is the struct after.
ValidateConfig(cfg) ==
    LET v == validateConfig(cfg)
    IN  /\ Complete("validateConfig", cfg,
                    [isNil |-> TRUE, value |-> v.cfg, err |-> v.err])
        /\ UNCHANGED cfgVars

\* A constructor that completes in one step: o, called with a, returns the
\* Client c, which is the client the calls are made on from now on.
Construct(o, a, c) ==
    /\ pc = "idle"
    /\ op' = o
    /\ args' = a
    /\ pc' = "done"
    /\ out' = [isNil |-> FALSE, value |-> c, err |-> NoErr]
    /\ client' = c
    /\ UNCHANGED <<other, req, i, hist, resp, open, readErr, ret, wire, cfgVars, seqVars>>

\* NewClient(): the URL and the token are copied from the package's config.
NewClient ==
    Construct("NewClient", [cfg |-> config],
              [baseUrl |-> config.ServerUrl, base64Token |-> config.Base64Token,
               retryMax |-> RetryMax])

\* NewClientWithConfig(cfg) for the k-th Config NewConfig returned.
NewClientWithConfigOf(k) ==
    /\ k \in 1..Len(made)
    /\ Construct("NewClientWithConfig", [cfg |-> made[k]], NewClientWithConfig(made[k]))

\* The caller assigns to a field of the k-th Config NewConfig returned: its
\* fields are exported.
WriteConfig(k, field, value) ==
    /\ k \in 1..Len(made)
    /\ Complete("WriteConfig", [k |-> k, field |-> field, value |-> value],
                [isNil |-> TRUE, value |-> <<>>, err |-> NoErr])
    /\ made' = [made EXCEPT ![k] = [made[k] EXCEPT ![field] = value]]
    /\ UNCHANGED config

\* The state of the call of a goroutine that is not in a call.
IdleCall ==
    [op |-> "none", args |-> NoArgs, pc |-> "idle", req |-> NoReq, i |-> 0,
     hist |-> <<>>, resp |-> NoResp, open |-> 0, readErr |-> FALSE, ret |-> NoRet,
     out |-> NoOut, wire |-> <<>>]

\* The state of the call of the goroutine that is taking steps.
Running ==
    [op |-> op, args |-> args, pc |-> pc, req |-> req, i |-> i, hist |-> hist,
     resp |-> resp, open |-> open, readErr |-> readErr, ret |-> ret, out |-> out,
     wire |-> wire]

Resume_SharedRequest(saved, running) == [saved EXCEPT !.req = running.req]

\* The state a goroutine finds when it is scheduled again: method, uri, req,
\* resp, body and err are locals of its own call of DoWithBody, so it finds them
\* as it left them, whatever the goroutine that ran meanwhile (running) did.
Resume(saved, running) == saved

\* The scheduler lets the other goroutine take the next steps.
Switch ==
    LET next == Resume(other, Running)
    IN  /\ other' = Running
        /\ op' = next.op
        /\ args' = next.args
        /\ pc' = next.pc
        /\ req' = next.req
        /\ i' = next.i
        /\ hist' = next.hist
        /\ resp' = next.resp
        /\ open' = next.open
        /\ readErr' = next.readErr
        /\ ret' = next.ret
        /\ out' = next.out
        /\ wire' = next.wire
        /\ UNCHANGED <<client, cfgVars, seqVars>>

\* No call is in progress.
Idle ==
    /\ op = "none"
    /\ args = NoArgs
    /\ pc = "idle"
    /\ req = NoReq
    /\ i = 0
    /\ hist = <<>>
    /\ resp = NoResp
    /\ open = 0
    /\ readErr = FALSE
    /\ ret = NoRet
    /\ out = NoOut
    /\ wire = <<>>

Init ==
    /\ client \in Clients
    /\ Idle
    /\ other = IdleCall
    /\ config = ZeroConfig
    /\ made = <<>>
    /\ counting = FALSE
    /\ requestCount = 0
    /\ log = <<>>

Next ==
    \/ \E m \in Methods, u \in Uris : Do(m, u)
    \/ \E m \in Methods, u \in Uris, p \in Payloads : DoWithBody(m, u, p)
    \/ GetProject
    \/ \E r \in NetResults : Attempt(r)
    \/ \E readOk \in BOOLEAN : ReadBody(readOk)
    \/ Return

Spec == Init /\ [][Next]_vars

\* Every public operation, the services with the bodies they may be answered.
ApiNext ==
    \/ \E u \in Uris : Do("GET", u)
    \/ \E p \in Payloads : DoWithBody("POST", <<"/test">>, p)
    \/ GetProject
    \/ GetPrompts
    \/ \E n \in PromptNames, l \in Labels, v \in Versions : GetPromptByName(n, l, v)
    \/ \E p \in {"prompt", "chan"} : CreatePrompt(p)
    \/ \E n \in PromptNames, l \in LabelLists : UpdatePromptVersionLabels(n, <<"1">>, l)
    \/ \E s \in CfgUrls, p \in {<<>>, <<"p">>}, k \in {<<>>, <<"s">>} : NewConfig(s, p, k)
    \/ \E r \in ServiceResults : Attempt(r)
    \/ \E readOk \in BOOLEAN : ReadBody(readOk)
    \/ Return

ApiSpec == Init /\ [][ApiNext]_vars

\* What the counting server and the network give a call in the loop.
SeqResults ==
    [kind : {"resp"}, status : {200, 500}, body : {<<"{", "x", "}">>}, cause : {""}]
        \cup [kind : {"err"}, status : {0}, body : {<<>>}, cause : {"connection refused"}]

\* A loop of sequential calls on one client against a server that counts the
\* requests it receives.
SeqInit ==
    /\ client \in {setupTestClient(<<"http://host">>),
                   NewClientWithConfig([ServerUrl |-> <<"http://host">>,
                                        Base64Token |-> Token(<<"p", "k">>, <<"s", "k">>)])}
    /\ Idle
    /\ config = ZeroConfig
    /\ made = <<>>
    /\ counting = TRUE
    /\ requestCount = 0
    /\ log = <<>>
    /\ other = IdleCall

SeqNext ==
    \/ \E p \in {"map", "chan"} : DoWithBody("POST", <<"/test">>, p)
    \/ \E r \in SeqResults : Attempt(r)
    \/ \E readOk \in BOOLEAN : ReadBody(readOk)
    \/ Return

SeqSpec == SeqInit /\ [][SeqNext]_vars

\* The configuration alone: no request is made.
CfgInit == Init /\ client = setupTestClient(<<"http://host">>)

CfgNext ==
    \/ \E s \in CfgUrls, p \in PublicKeys, k \in SecretKeys : NewConfig(s, p, k)
    \/ \E e \in Envs : LoadConfigFromEnvVars(e)
    \/ \E cfg \in ConfigStructs : ValidateConfig(cfg)
    \/ Return

CfgSpec == CfgInit /\ [][CfgNext]_vars

\* Environments of the life of a client: complete ones, with two servers and
\* two public keys, and one without variables.
LifeEnvs ==
    { e \in Envs :
          \/ e.LANGFUSE_SERVER_URL = <<>> /\ e.LANGFUSE_PUBLIC_KEY = <<>>
                 /\ e.LANGFUSE_SECRET_KEY = <<>>
          \/ e.LANGFUSE_SERVER_URL # <<>> /\ e.LANGFUSE_PUBLIC_KEY # <<>>
                 /\ e.LANGFUSE_SECRET_KEY = <<"s">> }

\* What the network gives a request of a client under observation.
LifeResults ==
    [kind : {"resp"}, status : {200}, body : {<<"{", "x", "}">>}, cause : {""}]
        \cup [kind : {"err"}, status : {0}, body : {<<>>}, cause : {"connection refused"}]

\* The life of a client: it is constructed, from the package's config or from a
\* Config, and requests are made on it, while the configuration goes on
\* changing.
LifeNext ==
    \/ NewClient
    \/ \E k \in 1..MaxConfigs : NewClientWithConfigOf(k)
    \/ \E s \in CfgUrls \ {<<>>}, p \in {<<"p">>} : NewConfig(s, p, <<"s">>)
    \/ \E e \in LifeEnvs : LoadConfigFromEnvVars(e)
    \/ \E k \in 1..MaxConfigs :
           \/ \E u \in CfgUrls \ {<<>>} : WriteConfig(k, "ServerUrl", u)
           \/ \E t \in Tokens : WriteConfig(k, "Base64Token", t)
    \/ Do("GET", <<"/test">>)
    \/ \E r \in LifeResults : Attempt(r)
    \/ ReadBody(TRUE)
    \/ Return

LifeSpec == CfgInit /\ [][LifeNext]_vars

\* What an attempt ends with: a response of each class, those the policy
\* retries (429, 500) and those it does not, or a failure of the round trip,
\* transient or permanent.
LiveResults ==
    [kind : {"resp"}, status : {200, 404, 429, 500, 501}, body : {<<"{", "x", "}">>},
     cause : {""}]
        \cup [kind : {"err"}, status : {0}, body : {<<>>}, cause : NetErrors]

\* Paths of the calls: one that parses and one that does not.
LiveUris == { <<"/test">>, <<"/test", "%", "z", "z">> }

LiveNext ==
    \/ \E m \in {"GET", "BAD METHOD"}, u \in LiveUris : Do(m, u)
    \/ \E m \in {"POST", "BAD METHOD"}, u \in LiveUris, p \in Payloads :
           DoWithBody(m, u, p)
    \/ \E r \in LiveResults : Attempt(r)
    \/ \E readOk \in BOOLEAN : ReadBody(readOk)
    \/ Return

\* Every attempt ends, with a response or with a failure, and every read of a
\* body ends: the round trip and io.ReadAll return.
LiveSpec ==
    /\ Init
    /\ [][LiveNext]_vars
    /\ WF_vars(\E r \in LiveResults : Attempt(r))
    /\ WF_vars(\E readOk \in BOOLEAN : ReadBody(readOk))

\* What the network gives the requests of two concurrent calls.
ConcResults ==
    [kind : {"resp"}, status : {200, 404, 500}, body : {<<"{", "x", "}">>}, cause : {""}]
        \cup [kind : {"err"}, status : {0}, body : {<<>>}, cause : {"connection refused"}]

\* Two goroutines call one client; the scheduler switches between them at any
\* step.
ConcInit ==
    /\ Init
    /\ client \in {setupTestClient(<<"http://host">>),
                   NewClientWithConfig([ServerUrl |-> <<"http://other">>,
                                        Base64Token |-> Token(<<"p">>, <<"s">>)])}

ConcNext ==
    \/ \E u \in {<<"/test">>, <<"/test", "%", "2", "F", "x">>} : Do("GET", u)
    \/ \E p \in {"map", "chan"} : DoWithBody("POST", <<"/test">>, p)
    \/ \E r \in ConcResults : Attempt(r)
    \/ \E readOk \in BOOLEAN : ReadBody(readOk)
    \/ Return
    \/ Switch

ConcSpec == ConcInit /\ [][ConcNext]_vars

-----------------------------------------------------------------------------
(* The Prompt record and its JSON encoding *)

\* JSON values.
JNull == [kind |-> "null"]

JString(s) == [kind |-> "string", s |-> s]

JNumber(n) == [kind |-> "number", n |-> n]

JArray(items) == [kind |-> "array", items |-> items]

JObject(members) == [kind |-> "object", members |-> members]

\* Values of the Go types the field Prompt.Prompt (an interface{}) may hold.
NilInterface == [type |-> "nil"]

GoString(s) == [type |-> "string", s |-> s]

ChatMessageSlice(isNil, items) == [type |-> "[]ChatMessage", isNil |-> isNil, items |-> items]

InterfaceSlice(items) == [type |-> "[]interface{}", isNil |-> FALSE, items |-> items]

InterfaceMap(m) == [type |-> "map[string]interface{}", isNil |-> FALSE, m |-> m]

\* A nil map[string]interface{}; the entries of a map are kept in key order.
NilMap == [isNil |-> TRUE, entries |-> <<>>]

ChatMessages ==
    << [Type |-> "chatmessage", Role |-> "system", Content |-> "You are a helpful assistant."],
       [Type |-> "chatmessage", Role |-> "user", Content |-> "Hello!"] >>

\* What a Prompt may hold as its content: nothing, a text, a list of messages
\* (nil, empty, of one and of two messages).
Contents ==
    { NilInterface, GoString("Hello {{name}}"),
      ChatMessageSlice(TRUE, <<>>), ChatMessageSlice(FALSE, <<>>),
      ChatMessageSlice(FALSE, SubSeq(ChatMessages, 1, 1)),
      ChatMessageSlice(FALSE, ChatMessages) }

TagLists ==
    { NilStrings, [isNil |-> FALSE, items |-> <<>>],
      [isNil |-> FALSE, items |-> <<"chat", "test">>] }

PromptConfigs ==
    { NilMap, [isNil |-> FALSE, entries |-> <<>>],
      [isNil |-> FALSE, entries |-> << [key |-> "model", value |-> GoString("gpt")] >>] }

\* Prompt structs.
Prompts ==
    [Config : PromptConfigs, CommitMessage : {"", "Initial version"},
     Labels : LabelLists, Name : {"test-chat-prompt"}, Prompt : Contents,
     Version : {0, 1}, Tags : TagLists, Type : {"chat", "text"}]

\* json.Marshal of a ChatMessage: its three members, none of them omitted.
MarshalChatMessage(m) ==
    JObject(<< [key |-> "type", value |-> JString(m.Type)],
               [key |-> "role", value |-> JString(m.Role)],
               [key |-> "content", value |-> JString(m.Content)] >>)

\* json.Marshal of the value an interface{} holds: a nil slice is null.
MarshalInterface(v) ==
    CASE v.type = "nil" -> JNull
      [] v.type = "string" -> JString(v.s)
      [] v.type = "[]ChatMessage" ->
             IF v.isNil THEN JNull
             ELSE JArray([k \in 1..Len(v.items) |-> MarshalChatMessage(v.items[k])])

\* json.Marshal of a []string as a JSON value.
MarshalStringSlice(list) ==
    IF list.isNil THEN JNull
    ELSE JArray([k \in 1..Len(list.items) |-> JString(list.items[k])])

\* json.Marshal(prompt) for a Prompt: the members in the order of the fields;
\* with omitempty a nil or empty map, an empty string, a nil or empty slice, a
\* nil interface and the number 0 are left out.
MarshalPrompt(p) ==
    JObject(
        (IF p.Config.entries = <<>> THEN <<>>
         ELSE << [key |-> "config",
                  value |-> JObject([k \in 1..Len(p.Config.entries) |->
                                [key |-> p.Config.entries[k].key,
                                 value |-> MarshalInterface(p.Config.entries[k].value)]])] >>)
        \o (IF p.CommitMessage = "" THEN <<>>
            ELSE << [key |-> "commitMessage", value |-> JString(p.CommitMessage)] >>)
        \o (IF p.Labels.items = <<>> THEN <<>>
            ELSE << [key |-> "labels", value |-> MarshalStringSlice(p.Labels)] >>)
        \o << [key |-> "name", value |-> JString(p.Name)] >>
        \o (IF p.Prompt.type = "nil" THEN <<>>
            ELSE << [key |-> "prompt", value |-> MarshalInterface(p.Prompt)] >>)
        \o (IF p.Version = 0 THEN <<>>
            ELSE << [key |-> "version", value |-> JNumber(p.Version)] >>)
        \o (IF p.Tags.items = <<>> THEN <<>>
            ELSE << [key |-> "tags", value |-> MarshalStringSlice(p.Tags)] >>)
        \o << [key |-> "type", value |-> JString(p.Type)] >>)

\* The value of the member key of a JSON object, null without the member.
Member(j, key) ==
    IF \E k \in 1..Len(j.members) : j.members[k].key = key
    THEN j.members[CHOOSE k \in 1..Len(j.members) :
                       /\ j.members[k].key = key
                       /\ \A h \in (k + 1)..Len(j.members) : j.members[h].key # key].value
    ELSE JNull

\* json.Unmarshal of a JSON value into an interface{}: a string for a string, a
\* []interface{} for an array, a map[string]interface{} for an object, nil for
\* null, whatever the interface held when it was encoded.
RECURSIVE UnmarshalInterface(_)
UnmarshalInterface(j) ==
    CASE j.kind = "null" -> NilInterface
      [] j.kind = "string" -> GoString(j.s)
      [] j.kind = "array" ->
             InterfaceSlice([k \in 1..Len(j.items) |-> UnmarshalInterface(j.items[k])])
      [] j.kind = "object" ->
             InterfaceMap([key \in {j.members[k].key : k \in 1..Len(j.members)} |->
                              UnmarshalInterface(Member(j, key))])

\* json.Unmarshal of a JSON value into a nil []string.
UnmarshalStringSlice(j) ==
    IF j.kind = "null" THEN NilStrings
    ELSE [isNil |-> FALSE, items |-> [k \in 1..Len(j.items) |-> j.items[k].s]]

\* json.Unmarshal of a JSON value into a nil map[string]interface{}.
UnmarshalConfig(j) ==
    IF j.kind = "null" THEN NilMap
    ELSE [isNil |-> FALSE,
          entries |-> [k \in 1..Len(j.members) |->
                          [key |-> j.members[k].key,
                           value |-> UnmarshalInterface(j.members[k].value)]]]

\* json.Unmarshal(data, &unmarshaled) for var unmarshaled Prompt: a field
\* without a member, or with the member null, keeps its zero value.
UnmarshalPromptStruct(j) ==
    [Config |-> UnmarshalConfig(Member(j, "config")),
     CommitMessage |-> IF Member(j, "commitMessage").kind = "string"
                       THEN Member(j, "commitMessage").s ELSE "",
     Labels |-> UnmarshalStringSlice(Member(j, "labels")),
     Name |-> IF Member(j, "name").kind = "string" THEN Member(j, "name").s ELSE "",
     Prompt |-> UnmarshalInterface(Member(j, "prompt")),
     Version |-> IF Member(j, "version").kind = "number"
                 THEN Member(j, "version").n ELSE 0,
     Tags |-> UnmarshalStringSlice(Member(j, "tags")),
     Type |-> IF Member(j, "type").kind = "string" THEN Member(j, "type").s ELSE ""]

\* A Prompt is encoded with json.Marshal and the result decoded into a new
\* Prompt with json.Unmarshal.
PromptMarshaling(prompt) ==
    /\ Complete("PromptMarshaling", [prompt |-> prompt],
                [isNil |-> FALSE, value |-> UnmarshalPromptStruct(MarshalPrompt(prompt)),
                 err |-> NoErr])
    /\ UNCHANGED cfgVars

CodecNext ==
    \/ \E p \in Prompts : PromptMarshaling(p)
    \/ Return

CodecSpec == CfgInit /\ [][CodecNext]_vars

-----------------------------------------------------------------------------
(* Vocabulary of the properties *)

Done == pc = "done"

\* Requests this call has sent.
Sent == Len(hist)

Last == hist[Len(hist)]

Is4xx(r) == r.kind = "resp" /\ r.status >= 400 /\ r.status <= 499

Is5xx(r) == r.kind = "resp" /\ r.status >= 500 /\ r.status <= 599

Is2xx3xx(r) == r.kind = "resp" /\ r.status >= 200 /\ r.status <= 399

\* Every attempt so far was answered 500.
All500 == Sent > 0 /\ \A k \in 1..Sent : hist[k].kind = "resp" /\ hist[k].status = 500

\* Every attempt so far was answered with some 5xx.
All5xx == Sent > 0 /\ \A k \in 1..Sent : Is5xx(hist[k])

\* Every attempt so far failed at the network level.
AllNetErr == Sent > 0 /\ \A k \in 1..Sent : hist[k].kind = "err"

ClientError(s, b) == <<[E("client error") EXCEPT !.status = s, !.body = b]>>

ServerError(s, b) == <<[E("server error") EXCEPT !.status = s, !.body = b]>>

\* The call failed while reading the body of the response it had obtained.
ReadFailed == Done /\ readErr

\* The call's error is the transport's: "error making request: ... giving up".
IsTransportError(err) ==
    /\ Len(err) >= 2
    /\ err[1].msg = "error making request"
    /\ err[2].msg = "giving up after attempt(s)"

-----------------------------------------------------------------------------
(* C1 *)

\* C1, as claimed: a 4xx response is never retried. The attempt that got a 4xx
\* response is the last one of the call, and a call whose first attempt got a 4xx
\* response has sent exactly one request.
C1_No4xxRetry ==
    \A k \in 1..Sent :
        Is4xx(hist[k]) => (k = Sent /\ pc # "sending" /\ (k = 1 => Sent = 1))

-----------------------------------------------------------------------------
(* C2 *)

-----------------------------------------------------------------------------
(* C3 *)

\* C3, as claimed: when every attempt was answered 5xx and the retries are
\* exhausted, DoWithBody returns "server error <status>: <body>" of the response.
C3_ServerErrorAfterExhaustion ==
    (Done /\ All5xx /\ Sent = client.retryMax + 1 /\ ~ReadFailed)
        => ret.err = ServerError(Last.status, Last.body)

-----------------------------------------------------------------------------
(* C4 *)

-----------------------------------------------------------------------------
(* C5 *)

\* C5, as claimed: when the server's answer to the call has a status s in
\* 400..499 (and its body could be read), the error DoWithBody returns is
\* "client error <s>: <body>" with that status and that body.
C5_ClientErrorCarriesStatusAndBody ==
    (Done /\ Sent > 0 /\ Is4xx(Last) /\ ~ReadFailed)
        => ret.err = ClientError(Last.status, Last.body)

-----------------------------------------------------------------------------
(* C6 *)

\* The payload can be marshalled and the request can be constructed.
Constructible ==
    /\ args.payload # "chan"
    /\ validMethod(DefaultMethod(args.method))
    /\ ValidEscapes(client.baseUrl \o args.uri)

\* C6, as claimed: with an empty token every call with a serializable payload
\* fails with "Base64 token is required" and sends nothing, whatever the method
\* and the path.
C6_EmptyTokenAlwaysMissingCredentials ==
    (Done /\ client.base64Token = <<>> /\ args.payload # "chan")
        => (ret.err = <<E("Base64 token is required")>> /\ Sent = 0)

\* C6, amended: with an empty token no call sends a request and every call
\* fails with no result; the error is "Base64 token is required" when the
\* payload is serializable and the request can be constructed (a valid method,
\* a base URL and path that parse), and "error creating request" when the
\* payload is serializable and the request cannot be constructed.
C6_EmptyTokenSendsNothing ==
    client.base64Token = <<>> =>
        /\ Sent = 0
        /\ pc \in {"idle", "done"}
        /\ Done => (ret.err # NoErr /\ ret.isNil /\ out.err # NoErr /\ out.isNil)
        /\ (Done /\ Constructible) => ret.err = <<E("Base64 token is required")>>
        /\ (Done /\ args.payload # "chan" /\ ~Constructible)
                => ret.err[1].msg = "error creating request"

C6_Witness ==
    /\ Done /\ client.base64Token = <<>> /\ op = "DoWithBody" /\ args.payload = "map"
    /\ ret.err = <<E("Base64 token is required")>>
    /\ Sent = 0

-----------------------------------------------------------------------------
(* C7 *)

\* C7: a payload that cannot be marshalled makes DoWithBody return "error
\* marshalling request body" wrapping the marshalling error, with no result and
\* without sending anything, whatever the client's token and base URL and
\* whatever the method and the path.
C7_MarshalErrorFirst ==
    args.payload = "chan" =>
        /\ Sent = 0
        /\ pc \in {"idle", "done"}
        /\ Done => /\ ret.err = Wrap("error marshalling request body", Marshal("chan").err)
                   /\ ret.isNil
                   /\ out.err = ret.err

\* The case of C7 where every later check would have failed too: empty token,
\* a base URL that does not parse, an invalid method.
C7_Witness ==
    /\ Done /\ args.payload = "chan"
    /\ client.base64Token = <<>>
    /\ ~ValidEscapes(client.baseUrl)
    /\ ~validMethod(DefaultMethod(args.method))
    /\ ret.err[1].msg = "error marshalling request body"

-----------------------------------------------------------------------------
(* C8 *)

\* C8, as claimed: a call in which some attempt failed at the network level
\* retries per the policy. If every attempt failed at the network level up to
\* the limit, it returns "error making request" wrapping the last failure; if
\* the last attempt obtained a response, the outcome is the classification of
\* that response: the body for 200..399, the client error for 400..499, the
\* server error for 500..599.
C8_NetworkFailureThenClassification ==
    (Done /\ Sent > 0 /\ ~ReadFailed /\ \E k \in 1..Sent : hist[k].kind = "err") =>
        /\ (Last.kind = "err" /\ Last.cause \notin PermanentErrors)
                => Sent = client.retryMax + 1
        /\ AllNetErr =>
                /\ IsTransportError(ret.err)
                /\ ret.err[Len(ret.err)].msg = Last.cause
        /\ Is2xx3xx(Last) => ret = [isNil |-> FALSE, body |-> Last.body, err |-> NoErr]
        /\ Is4xx(Last) => ret.err = ClientError(Last.status, Last.body)
        /\ Is5xx(Last) => ret.err = ServerError(Last.status, Last.body)

-----------------------------------------------------------------------------
(* C9 *)

\* C9, as claimed: for any response with status in 200..399 DoWithBody returns
\* a nil error and the body exactly as received.
C9_SuccessReturnsBody ==
    (Done /\ Sent > 0 /\ Is2xx3xx(Last))
        => ret = [isNil |-> FALSE, body |-> Last.body, err |-> NoErr]

\* C9, amended: for any response with status in 200..399 whose body is read
\* without error, DoWithBody returns a nil error and the body exactly as
\* received, and Do hands the same bytes to its caller; when reading the body
\* fails it returns "error reading response body" and no body.
C9_SuccessReturnsBodyIfRead ==
    (Done /\ Sent > 0 /\ Is2xx3xx(Last)) =>
        IF readErr
        THEN /\ ret.isNil
             /\ ret.body = <<>>
             /\ Len(ret.err) = 2
             /\ ret.err[1].msg = "error reading response body"
        ELSE /\ ret = [isNil |-> FALSE, body |-> Last.body, err |-> NoErr]
             /\ op \in {"Do", "DoWithBody"} => (out.value = Last.body /\ out.err = NoErr)

C9_Witness ==
    /\ Done /\ Sent > 0 /\ Is2xx3xx(Last) /\ ~readErr
    /\ Last.status = 399
    /\ Last.body # <<>>
    /\ ret.body = Last.body
    /\ ret.err = NoErr

-----------------------------------------------------------------------------
(* C10 *)

\* C10: once DoWithBody has returned, every response body the call obtained is
\* closed, on every exit path (success, 4xx, 5xx, read failure, and the
\* transport giving up); while it runs at most the one body it is about to read
\* is open.
C10_BodyClosedOnReturn ==
    /\ pc \in {"done", "idle"} => open = 0
    /\ pc = "sending" => open = 0
    /\ pc = "reading" => open = 1

\* A call that obtained several responses, was handed a 5xx one and failed
\* while reading it, has returned with nothing left open.
C10_Witness ==
    /\ Done /\ Sent > 1 /\ resp.kind = "resp" /\ resp.status >= 500 /\ readErr
    /\ ret.err[1].msg = "error reading response body"
    /\ open = 0

-----------------------------------------------------------------------------
(* C11 *)

\* The error the claim expects for a server URL, a public key and a secret key:
\* the first missing one, in that order.
FirstMissing(serverUrl, publicKey, secretKey) ==
    IF serverUrl = <<>> THEN <<E("LANGFUSE_SERVER_URL is required")>>
    ELSE IF publicKey = <<>> THEN <<E("LANGFUSE_PUBLIC_KEY is required")>>
    ELSE IF secretKey = <<>> THEN <<E("LANGFUSE_SECRET_KEY is required")>>
    ELSE NoErr

\* The same with the prefix of LoadConfigFromEnvVars.
FirstMissingEnv(e) ==
    LET m == FirstMissing(e.LANGFUSE_SERVER_URL, e.LANGFUSE_PUBLIC_KEY,
                          e.LANGFUSE_SECRET_KEY)
    IN  IF m = NoErr THEN NoErr ELSE Wrap("error validating config", m)

\* C11, as claimed: validation reports the first missing field only, server URL
\* before public key before secret key, whatever the later fields are: NewConfig
\* for its arguments, validateConfig for the struct's fields, and
\* LoadConfigFromEnvVars, with the prefix "error validating config", for the
\* environment variables, in all 8 combinations of present and absent values.
C11_FirstMissingReported ==
    Done =>
        /\ op = "NewConfig" =>
            out.err = FirstMissing(args.serverUrl, args.publicKey, args.secretKey)
        /\ op = "validateConfig" =>
            out.err = FirstMissing(args.ServerUrl, args.PublicKey, args.SecretKey)
        /\ op = "LoadConfigFromEnvVars" => out.err = FirstMissingEnv(args)

\* The part of C11 that holds: NewConfig reports the first missing argument and
\* validateConfig the first missing field of the struct it is given.
C11_FirstMissingOfArguments ==
    Done =>
        /\ op = "NewConfig" =>
            out.err = FirstMissing(args.serverUrl, args.publicKey, args.secretKey)
        /\ op = "validateConfig" =>
            out.err = FirstMissing(args.ServerUrl, args.PublicKey, args.SecretKey)

-----------------------------------------------------------------------------
(* C12 *)

\* NewConfig has returned from a call with three non-empty arguments.
NewConfigOfValidTriple ==
    /\ Done /\ op = "NewConfig"
    /\ args.serverUrl # <<>> /\ args.publicKey # <<>> /\ args.secretKey # <<>>

\* C12: for every triple of non-empty server URL, public key and secret key,
\* NewConfig succeeds, the Config holds the three values as given, its
\* Base64Token is the base64 encoding of publicKey ":" secretKey ("cGs6c2s=" for
\* "pk" and "sk"), and decoding the token gives back publicKey ":" secretKey.
C12_TokenIsBase64OfKeys ==
    NewConfigOfValidTriple =>
        /\ out.err = NoErr /\ ~out.isNil
        /\ out.value.ServerUrl = args.serverUrl
        /\ out.value.PublicKey = args.publicKey
        /\ out.value.SecretKey = args.secretKey
        /\ out.value.Base64Token =
               EncodeToString(Bytes(args.publicKey \o <<":">> \o args.secretKey))
        /\ String(DecodeString(out.value.Base64Token))
               = args.publicKey \o <<":">> \o args.secretKey
        /\ (args.publicKey = <<"p", "k">> /\ args.secretKey = <<"s", "k">>) =>
               out.value.Base64Token = <<"c", "G", "s", "6", "c", "2", "s", "=">>

C12_Witness ==
    /\ NewConfigOfValidTriple
    /\ args.publicKey = <<"p">> /\ args.secretKey = <<"s", "k">>
    /\ out.value.Base64Token = <<"c", "D", "p", "z", "a", "w", "=", "=">>
    /\ String(DecodeString(out.value.Base64Token)) = <<"p", ":", "s", "k">>

-----------------------------------------------------------------------------
(* C13 *)

\* This step is a call of NewConfig.
NewConfigStep == pc = "idle" /\ pc' = "done" /\ op' = "NewConfig"

\* C13: configs built with NewConfig are independent. No step, neither a further
\* NewConfig nor a LoadConfigFromEnvVars, changes a field of a Config that
\* NewConfig returned earlier; NewConfig leaves the package's config as it is;
\* and what NewConfig returns is determined by its three arguments, whatever the
\* package's config and the configs made before hold.
C13_ConfigsIndependent ==
    [][ /\ Len(made') >= Len(made)
        /\ \A k \in 1..Len(made) : made'[k] = made[k]
        /\ NewConfigStep =>
            /\ config' = config
            /\ out' = NewConfigResult(args'.serverUrl, args'.publicKey, args'.secretKey)
            /\ ~out'.isNil => made'[Len(made')] = out'.value ]_vars

\* Two configs were made for different servers and keys, the package's config
\* was loaded with yet other values, and both configs hold what they were given.
C13_Witness ==
    /\ Len(made) = 2
    /\ made[1].ServerUrl = <<"http://host">> /\ made[1].PublicKey = <<"p">>
    /\ made[2].ServerUrl = <<"http://other">> /\ made[2].PublicKey = <<"p", "k">>
    /\ made[1].Base64Token # made[2].Base64Token
    /\ Done /\ op = "LoadConfigFromEnvVars" /\ out.err = NoErr
    /\ config.SecretKey = <<"s", "k">> /\ made[1].SecretKey = <<"s">>

-----------------------------------------------------------------------------
(* C17 *)

\* LoadConfigFromEnvVars has returned from a call made with all three
\* environment variables set.
LoadOfFullEnv ==
    /\ Done /\ op = "LoadConfigFromEnvVars"
    /\ args.LANGFUSE_SERVER_URL # <<>>
    /\ args.LANGFUSE_PUBLIC_KEY # <<>>
    /\ args.LANGFUSE_SECRET_KEY # <<>>

\* C17: the two ways of building a configuration agree. For a server URL, a
\* public key and a secret key that make a configuration, LoadConfigFromEnvVars
\* with the values in the environment succeeds and leaves the package's config
\* equal, in ServerUrl, PublicKey, SecretKey and Base64Token, to the Config that
\* NewConfig returns for the same three values, whatever was loaded before.
C17_LoadEqualsNewConfig ==
    LoadOfFullEnv =>
        LET n == NewConfigResult(args.LANGFUSE_SERVER_URL, args.LANGFUSE_PUBLIC_KEY,
                                 args.LANGFUSE_SECRET_KEY)
        IN  /\ out.err = NoErr /\ n.err = NoErr /\ ~n.isNil
            /\ config.ServerUrl = n.value.ServerUrl
            /\ config.PublicKey = n.value.PublicKey
            /\ config.SecretKey = n.value.SecretKey
            /\ config.Base64Token = n.value.Base64Token

\* A Config made by NewConfig and the package's config loaded from the same
\* values, after the package's config had held other values.
C17_Witness ==
    /\ LoadOfFullEnv
    /\ Len(made) = 2 /\ made[1].PublicKey = <<"p">> /\ made[2] = config
    /\ config.PublicKey = <<"p", "k">>
    /\ config.Base64Token = Token(<<"p", "k">>, config.SecretKey)

-----------------------------------------------------------------------------
(* C18 *)

\* The package's config as successful loads leave it: never loaded, or complete
\* with the token of its keys.
LoadedOrZero(cfg) ==
    \/ cfg = ZeroConfig
    \/ /\ cfg.ServerUrl # <<>> /\ cfg.PublicKey # <<>> /\ cfg.SecretKey # <<>>
       /\ cfg.Base64Token = Token(cfg.PublicKey, cfg.SecretKey)

\* This step is a call of LoadConfigFromEnvVars that succeeds.
LoadSucceeds ==
    pc = "idle" /\ pc' = "done" /\ op' = "LoadConfigFromEnvVars" /\ out'.err = NoErr

\* C18, as claimed: when LoadConfigFromEnvVars succeeds, after nothing or after
\* earlier successful calls with other values, the package's config has the
\* values of the environment of this call in ServerUrl, PublicKey and SecretKey,
\* and its Base64Token is the token of this call's keys.
C18_ConfigReflectsLatestEnv ==
    [][ (LoadSucceeds /\ LoadedOrZero(config)) =>
            /\ config'.ServerUrl = args'.LANGFUSE_SERVER_URL
            /\ config'.PublicKey = args'.LANGFUSE_PUBLIC_KEY
            /\ config'.SecretKey = args'.LANGFUSE_SECRET_KEY
            /\ config'.Base64Token
                   = Token(args'.LANGFUSE_PUBLIC_KEY, args'.LANGFUSE_SECRET_KEY) ]_vars

-----------------------------------------------------------------------------
(* C14 *)

\* C14: no operation returns a partial result with an error. Whenever Do,
\* DoWithBody, GetProject, GetPrompts, GetPromptByName, CreatePrompt,
\* UpdatePromptVersionLabels or NewConfig returns an error, the result it
\* returns with it (body, map, *Prompt, *Config) is nil; so is the body
\* DoWithBody hands to the service method that called it.
C14_NoResultWithError ==
    Done =>
        /\ op \in {"Do", "DoWithBody", "GetProject", "GetPrompts", "GetPromptByName",
                   "CreatePrompt", "UpdatePromptVersionLabels", "NewConfig"}
        /\ out.err # NoErr => (out.isNil /\ out.value \in {<<>>, ZeroConfig})
        /\ ret.err # NoErr => (ret.isNil /\ ret.body = <<>>)

\* CreatePrompt was answered 200 with a body that does not decode: the body was
\* read, and the method returns the error and no Prompt.
C14_Witness ==
    /\ Done /\ op = "CreatePrompt"
    /\ Sent = 1 /\ Last.status = 200 /\ Last.body = <<"[", "]">>
    /\ ret.err = NoErr /\ ret.body = <<"[", "]">>
    /\ out.err # NoErr /\ out.isNil /\ out.value = <<>>

-----------------------------------------------------------------------------
(* C15 *)

ServiceMethods ==
    {"GetProject", "GetPrompts", "GetPromptByName", "CreatePrompt",
     "UpdatePromptVersionLabels"}

\* The prefix the claim gives for each service method.
OperationPrefix(o) ==
    CASE o = "GetProject" -> "error fetching project"
      [] o = "GetPrompts" -> "error fetching prompts"
      [] o = "GetPromptByName" -> "error fetching prompt by name"
      [] o = "CreatePrompt" -> "error creating prompt"
      [] o = "UpdatePromptVersionLabels" -> "error updating prompt version labels"

\* C15: whenever the executor returns an error to a service method, whichever
\* error it is (marshalling, request construction, missing token, transport,
\* client or server error, failed read), the method returns that error wrapped
\* with the prefix that names its operation, and no result.
C15_ServiceWrapsExecutorError ==
    (Done /\ op \in ServiceMethods /\ ret.err # NoErr) =>
        /\ out.err = <<E(OperationPrefix(op))>> \o ret.err
        /\ out.isNil /\ out.value = <<>>

\* UpdatePromptVersionLabels answered 404: "error updating prompt version
\* labels: client error 404: ...".
C15_Witness ==
    /\ Done /\ op = "UpdatePromptVersionLabels"
    /\ Sent = 1 /\ Last.status = 404
    /\ ret.err = ClientError(404, Last.body)
    /\ Len(out.err) = 2
    /\ out.err[1].msg = "error updating prompt version labels"
    /\ out.err[2].msg = "client error" /\ out.err[2].status = 404
    /\ out.isNil

-----------------------------------------------------------------------------
(* C16 *)

\* Request r carries the header name with the value <<v1, v2>>.
Carries(r, name, v1, v2) ==
    \E h \in 1..Len(r.headers) : r.headers[h] = <<name, v1, v2>>

\* C16: every request that goes out, the first attempt of a call and each retry,
\* carries Authorization: Basic <the client's token> with a token that is not
\* empty, Accept: */*, User-Agent: go-langfuse-client/v1.0.0 and, when it has a
\* body, Content-Type: application/json; each attempt sends one such request.
C16_HeadersOnEveryAttempt ==
    /\ Len(wire) = Sent
    /\ \A k \in 1..Len(wire) :
        /\ client.base64Token # <<>>
        /\ Carries(wire[k], "Authorization", "Basic", client.base64Token)
        /\ Carries(wire[k], "Accept", "*/*", "")
        /\ Carries(wire[k], "User-Agent", "go-langfuse-client", "v1.0.0")
        /\ wire[k].hasBody => Carries(wire[k], "Content-Type", "application/json", "")

\* A call with a body was answered 500 and sent again, with the same headers.
C16_Witness ==
    /\ op = "CreatePrompt" /\ Len(wire) = 2
    /\ hist[1].status = 500
    /\ wire[2].hasBody /\ wire[2].method = "POST"
    /\ Carries(wire[2], "Authorization", "Basic", <<"c", "G", "s", "6", "c", "2", "s", "=">>)
    /\ Carries(wire[2], "Content-Type", "application/json", "")
    /\ wire[2] = wire[1]

-----------------------------------------------------------------------------
(* C20 *)

\* The prefix of each service method's decode error.
DecodePrefix(o) ==
    CASE o = "GetProject" -> "error unmarshalling ArgoCD application data"
      [] o = "GetPrompts" -> "error unmarshalling prompts data"
      [] o = "GetPromptByName" -> "error unmarshalling prompt data"
      [] o = "CreatePrompt" -> "error unmarshalling created prompt data"
      [] o = "UpdatePromptVersionLabels" -> "error unmarshalling updated prompt data"

\* The body is a JSON object.
IsObject(body) == Len(body) >= 2 /\ body[1] = "{" /\ body[Len(body)] = "}"

\* The body has the shape service method o expects: a JSON object, and for the
\* methods that return a Prompt one whose members fit the fields they name.
ExpectedShape(o, body) ==
    /\ IsObject(body)
    /\ o \in {"GetPromptByName", "CreatePrompt", "UpdatePromptVersionLabels"} =>
           \A k \in 1..Len(body) : body[k] # MistypedMember

\* The service method got a success response and its body from the executor.
GotSuccessBody == Done /\ op \in ServiceMethods /\ ret.err = NoErr

\* The response that was handed back is the only one of the call that was not
\* retried: nothing was sent after it.
NotRepeated ==
    /\ Sent = i + 1
    /\ \A k \in 1..(Sent - 1) : Retries(client, k - 1, hist[k])

\* C20, as claimed: when a service method gets a success response whose body is
\* not valid JSON or has not the shape it expects, it returns its decode error
\* ("error unmarshalling ...") and a nil result, and the request is not sent
\* again.
C20_DecodeErrorOnBadBody ==
    (GotSuccessBody /\ ~ExpectedShape(op, ret.body)) =>
        /\ out.err # NoErr /\ out.err[1].msg = DecodePrefix(op)
        /\ out.isNil
        /\ NotRepeated

\* The part of C20 that holds: the same for every such body but "null".
C20_DecodeErrorUnlessNull ==
    (GotSuccessBody /\ ~ExpectedShape(op, ret.body) /\ ret.body # <<"null">>) =>
        /\ out.err # NoErr /\ out.err[1].msg = DecodePrefix(op)
        /\ out.isNil
        /\ NotRepeated

-----------------------------------------------------------------------------
(* C19 *)

\* Every call of the loop so far succeeded on its first attempt.
AllSucceededAtOnce == \A k \in 1..Len(log) : log[k].ok /\ log[k].sent = 1

\* What a call returns, from its own arguments and from what its own attempts
\* got, and from nothing else.
OutcomeOfThisCall ==
    IF Sent = 0
    THEN Fail(EarlyError(client, args.method, args.uri, args.payload))
    ELSE IF HandsBack(Last)
    THEN Classify(Last, ~readErr)
    ELSE Fail(Wrap("error making request", GivingUp(Sent, Last)))

\* C19: calls on one client are independent. A call whose first attempt is
\* answered with success sends that one request only; after n calls in sequence
\* that each succeeded on the first attempt the server has counted exactly n
\* requests; between calls nothing of the earlier calls is left in the client,
\* and what a call returns is determined by its own arguments and responses.
C19_SequentialCallsIndependent ==
    /\ (Sent >= 1 /\ Is2xx3xx(hist[1])) => (Sent = 1 /\ pc # "sending")
    /\ (pc = "idle" /\ AllSucceededAtOnce) => requestCount = Len(log)
    /\ pc = "idle" => Idle
    /\ Done => ret = OutcomeOfThisCall

\* Two calls in sequence succeeded at once and the server has counted two
\* requests.
C19_Witness ==
    /\ pc = "idle" /\ Len(log) >= 2 /\ AllSucceededAtOnce
    /\ requestCount = Len(log)
    /\ client.retryMax = RetryMax

-----------------------------------------------------------------------------
(* C21 *)

\* The operations that put a prompt name in the path.
NamedInPath == op \in {"GetPromptByName", "UpdatePromptVersionLabels"}

\* Of a URL as sent, what follows the host and "/api/public/v2/prompts/".
AfterPrompts(url) == SubSeq(url, 3, Len(url))

\* The end of the path segment t starts with: before the first "?" or
\* "/versions/", or the end of t.
SegmentEnd(t) ==
    LET q == IndexOf(t, "?")
        v == IndexOf(t, "/versions/")
    IN  (IF q < v THEN q ELSE v) - 1

\* The path segment that holds the name, and what follows it.
NameSegment(url) == SubSeq(AfterPrompts(url), 1, SegmentEnd(AfterPrompts(url)))

AfterName(url) ==
    SubSeq(AfterPrompts(url), SegmentEnd(AfterPrompts(url)) + 1, Len(AfterPrompts(url)))

\* C21: GetPromptByName and UpdatePromptVersionLabels send the name as one
\* percent-encoded path segment. In every request that goes out the segment after
\* ".../prompts/" holds no raw space, "/", "#", "?" (they are sent as %20, %2F,
\* %23, %3F, and "%" as %25), unescaping it gives the name exactly, the URL is sent
\* as the method built it (url.Parse and the request line do not change it), and
\* the segment is followed only by the query or by "/versions/<version>".
C21_NameIsOneEscapedSegment ==
    NamedInPath =>
        \A k \in 1..Len(wire) :
            LET url == wire[k].url
                seg == NameSegment(url)
            IN  /\ url = client.baseUrl \o args.uri
                /\ url[2] = "/api/public/v2/prompts/"
                /\ \A j \in 1..Len(seg) : seg[j] \notin {" ", "/", "#", "?"}
                /\ ValidEscapes(seg)
                /\ PathUnescape(seg) = args.given.name
                /\ op = "GetPromptByName" =>
                       (AfterName(url) = <<>> \/ Head(AfterName(url)) = "?")
                /\ op = "UpdatePromptVersionLabels" =>
                       AfterName(url) = <<"/versions/", "1">>

\* "my prompt/v1" went out as my%20prompt%2Fv1, and "a#b?c%d" as a%23b%3Fc%25d.
C21_Witness ==
    /\ NamedInPath /\ Len(wire) >= 1
    /\ \/ /\ args.given.name = <<"my", " ", "prompt", "/", "v1">>
          /\ NameSegment(wire[1].url) = <<"my", "%", "2", "0", "prompt", "%", "2", "F", "v1">>
          /\ op = "UpdatePromptVersionLabels"
       \/ /\ args.given.name = <<"a", "#", "b", "?", "c", "%", "d">>
          /\ NameSegment(wire[1].url)
                 = <<"a", "%", "2", "3", "b", "%", "3", "F", "c", "%", "2", "5", "d">>
          /\ op = "GetPromptByName" /\ args.given.label = <<"a", "&", "b">>

-----------------------------------------------------------------------------
(* C22 *)

RECURSIVE Split(_, _)
\* strings.Split(t, c): the pieces of t between the chunks c.
Split(t, c) ==
    IF IndexOf(t, c) > Len(t) THEN <<t>>
    ELSE <<SubSeq(t, 1, IndexOf(t, c) - 1)>> \o Split(SubSeq(t, IndexOf(t, c) + 1, Len(t)), c)

RECURSIVE QueryUnescape(_)
\* url.QueryUnescape(s): "+" becomes a space, each %h1h2 its character.
QueryUnescape(t) ==
    IF t = <<>> THEN <<>>
    ELSE IF Head(t) = "%" /\ Len(t) >= 3
    THEN <<HexChar(t[2], t[3])>> \o QueryUnescape(SubSeq(t, 4, Len(t)))
    ELSE IF Head(t) = "+" THEN <<" ">> \o QueryUnescape(Tail(t))
    ELSE <<Head(t)>> \o QueryUnescape(Tail(t))

\* The query of a URL as sent: what follows the first "?".
QueryOf(url) == SubSeq(url, IndexOf(url, "?") + 1, Len(url))

\* r.URL.Query() on the server: the parameters of the query, each split at its
\* first "=" into a key and a value, both unescaped.
ServerQuery(url) ==
    LET params == IF QueryOf(url) = <<>> THEN <<>> ELSE Split(QueryOf(url), "&")
    IN  [k \in 1..Len(params) |->
            [key |-> QueryUnescape(SubSeq(params[k], 1, IndexOf(params[k], "=") - 1)),
             value |-> QueryUnescape(SubSeq(params[k], IndexOf(params[k], "=") + 1,
                                            Len(params[k])))]]

\* GetPromptByName was called with a label.
WithLabel == op = "GetPromptByName" /\ args.given.label # <<>>

\* C22: GetPromptByName encodes the label so that it cannot split or alter the
\* query. In every request that goes out the value after "label=" holds no raw
\* "&", "=", "%" that is not an escape, space or "#"; the server finds exactly the
\* parameters that were given, label first; and the value it decodes for label is
\* the label exactly.
C22_LabelSurvivesQuery ==
    WithLabel =>
        \A k \in 1..Len(wire) :
            LET q == ServerQuery(wire[k].url)
                raw == Split(QueryOf(wire[k].url), "&")[1]
            IN  /\ Len(q) = 1 + (IF args.given.version # <<>> THEN 1 ELSE 0)
                /\ q[1] = [key |-> <<"label">>, value |-> args.given.label]
                /\ SubSeq(raw, 1, 2) = <<"label", "=">>
                /\ \A j \in 3..Len(raw) : raw[j] \notin {"&", "=", " ", "#", "?"}
                /\ ValidEscapes(raw)

\* The label "x=1% +" went out as label=x%3D1%25+%2B, next to a version.
C22_Witness ==
    /\ WithLabel /\ Len(wire) >= 1
    /\ args.given.label = <<"x", "=", "1", "%", " ", "+">>
    /\ args.given.version = <<"1">>
    /\ QueryOf(wire[1].url) =
           <<"label", "=", "x", "%", "3", "D", "1", "%", "2", "5", "+", "%", "2", "B",
             "&", "version", "=", "1">>
    /\ ServerQuery(wire[1].url)[1].value = args.given.label

-----------------------------------------------------------------------------
(* C23 *)

\* The keys the server finds in the query, in order.
QueryKeys(url) == [k \in 1..Len(ServerQuery(url)) |-> ServerQuery(url)[k].key]

\* The keys GetPromptByName is to send for a label and a version.
ExpectedKeys(label, version) ==
    (IF label # <<>> THEN << <<"label">> >> ELSE <<>>)
        \o (IF version # <<>> THEN << <<"version">> >> ELSE <<>>)

\* C23: GetPromptByName sends the parameter label if and only if the label is
\* not empty and the parameter version, with the number given (0 included), if
\* and only if a version is given; with neither, the URL has no "?" at all; and
\* the query comes after the path, which is the same with and without it.
C23_QueryOnlyWhenGiven ==
    op = "GetPromptByName" =>
        \A k \in 1..Len(wire) :
            LET url == wire[k].url
                g == args.given
            IN  /\ QueryKeys(url) = ExpectedKeys(g.label, g.version)
                /\ (g.label = <<>> /\ g.version = <<>>) <=> IndexOf(url, "?") > Len(url)
                /\ g.version # <<>> =>
                       ServerQuery(url)[Len(ServerQuery(url))].value = g.version
                /\ SubSeq(url, 1, IndexOf(url, "?") - 1)
                       = client.baseUrl \o <<"/api/public/v2/prompts/">> \o PathEscape(g.name)

\* No label and version 0: the query is version=0 alone.
C23_Witness ==
    /\ op = "GetPromptByName" /\ Len(wire) >= 1
    /\ args.given.label = <<>> /\ args.given.version = <<"0">>
    /\ QueryOf(wire[1].url) = <<"version", "=", "0">>
    /\ args.given.name = <<"a", "#", "b", "?", "c", "%", "d">>

\* Neither a label nor a version: no query string.
C23_WitnessNoQuery ==
    /\ op = "GetPromptByName" /\ Len(wire) >= 1
    /\ args.given.label = <<>> /\ args.given.version = <<>>
    /\ wire[1].url = <<"http://host", "/api/public/v2/prompts/", "my-prompt">>

-----------------------------------------------------------------------------
(* C24 *)

EmptyArrayRequest == <<"{", "\"newLabels\":", "[", "]", "}">>

EmptyLabelsEcho == <<"{", "\"labels\":", "[", "]", "}">>

UpdatesLabels == op = "UpdatePromptVersionLabels"

\* The server answered 200 with a prompt whose labels are [] and the method
\* returned it.
EchoedEmpty ==
    /\ UpdatesLabels /\ pc = "done" /\ out.err = NoErr
    /\ ret.body = EmptyLabelsEcho

\* C24: UpdatePromptVersionLabels with a list of no labels sends the body
\* {"newLabels":[]} on every attempt, and when the server answers with
\* "labels":[] the prompt returned has a list of labels that is not nil and has
\* length 0.
C24_EmptyLabelsSentAsArray ==
    /\ (UpdatesLabels /\ args.given.newLabels.items = <<>>) =>
           \A k \in 1..Len(wire) : wire[k].body = EmptyArrayRequest
    /\ EchoedEmpty =>
           /\ ~out.isNil
           /\ PromptLabels(out.value) = [isNil |-> FALSE, items |-> <<>>]

\* C24, for what the code does: a slice of length 0 that is not nil is sent as
\* [], a nil slice as null, a list with labels as the array of them, the member
\* newLabels is never left out, and an echoed "labels":[] is decoded as a slice
\* of length 0 that is not nil.
C24_EmptySliceAsArrayNilAsNull ==
    /\ UpdatesLabels =>
           \A k \in 1..Len(wire) :
               LET l == args.given.newLabels
                   b == wire[k].body
               IN  /\ wire[k].hasBody
                   /\ SubSeq(b, 1, 2) = <<"{", "\"newLabels\":">>
                   /\ l.isNil <=> b = <<"{", "\"newLabels\":", "null", "}">>
                   /\ (~l.isNil /\ l.items = <<>>) <=> b = EmptyArrayRequest
                   /\ UnmarshalStrings(SubSeq(b, 3, Len(b) - 1)) = l
    /\ EchoedEmpty =>
           /\ ~out.isNil
           /\ PromptLabels(out.value) = [isNil |-> FALSE, items |-> <<>>]

\* An empty list that is not nil was sent and the empty list came back.
C24_Witness ==
    /\ EchoedEmpty
    /\ args.given.newLabels = [isNil |-> FALSE, items |-> <<>>]
    /\ Len(wire) = 1 /\ wire[1].body = EmptyArrayRequest

\* A nil list was sent as null.
C24_WitnessNil ==
    /\ UpdatesLabels /\ args.given.newLabels = NilStrings
    /\ Len(wire) >= 1 /\ wire[1].body = <<"{", "\"newLabels\":", "null", "}">>

-----------------------------------------------------------------------------
(* C25 *)

\* A chat prompt with its list of messages went through json.Marshal and
\* json.Unmarshal.
ChatRoundTrip ==
    /\ op = "PromptMarshaling" /\ pc = "done"
    /\ args.prompt.Type = "chat"
    /\ args.prompt.Prompt.type = "[]ChatMessage"

\* C25: a chat prompt encoded to JSON and decoded into a Prompt is the Prompt
\* that was encoded.
C25_RoundTripIdentical == ChatRoundTrip => out.value = args.prompt

\* The message m as the generic map it is decoded to.
AsGenericMap(m) ==
    InterfaceMap([type |-> GoString(m.Type), role |-> GoString(m.Role),
                  content |-> GoString(m.Content)])

\* C25, for what the code does: type, name, commit message and version come
\* back as they were; labels and tags come back with the same strings, as a nil
\* list when there were none; the messages come back one for one with the same
\* type, role and content, but as a []interface{} of map[string]interface{}, not
\* as a []ChatMessage, and a nil list of messages as a nil interface.
C25_RoundTripKeepsData ==
    ChatRoundTrip =>
        LET p == args.prompt
            q == out.value
        IN  /\ q.Type = p.Type /\ q.Name = p.Name
            /\ q.CommitMessage = p.CommitMessage /\ q.Version = p.Version
            /\ q.Labels.items = p.Labels.items
            /\ q.Labels.isNil <=> p.Labels.items = <<>>
            /\ q.Tags.items = p.Tags.items
            /\ q.Tags.isNil <=> p.Tags.items = <<>>
            /\ q.Config.entries = p.Config.entries
            /\ q.Config.isNil <=> p.Config.entries = <<>>
            /\ q.Prompt.type # "[]ChatMessage"
            /\ IF p.Prompt.isNil THEN q.Prompt = NilInterface
               ELSE q.Prompt = InterfaceSlice([k \in 1..Len(p.Prompt.items) |->
                                                  AsGenericMap(p.Prompt.items[k])])

\* The prompt of TestPromptMarshaling went through.
C25_Witness ==
    /\ ChatRoundTrip
    /\ args.prompt.Prompt = ChatMessageSlice(FALSE, ChatMessages)
    /\ args.prompt.Labels.items = <<"production", "latest">>
    /\ args.prompt.Tags.items = <<"chat", "test">>
    /\ args.prompt.CommitMessage = "Initial version"
    /\ out.value.Prompt.type = "[]interface{}"
    /\ out.value.Prompt.items[2].m.role = GoString("user")

-----------------------------------------------------------------------------
(* C26 *)

\* With both keys present the token is the base64 text of "public:secret".
TokenOfKeys(cfg) ==
    (cfg.PublicKey # <<>> /\ cfg.SecretKey # <<>>) =>
        cfg.Base64Token = EncodeToString(Bytes(cfg.PublicKey \o <<":">> \o cfg.SecretKey))

\* C26: in every state, every Config that NewConfig returned and the package's
\* config, after any calls of LoadConfigFromEnvVars that succeeded or failed,
\* have the token of their keys when both keys are present.
C26_TokenInvariant ==
    /\ \A k \in 1..Len(made) : TokenOfKeys(made[k])
    /\ TokenOfKeys(config)

\* C26, for what the code does: the Configs NewConfig returned have the token of
\* their keys, and so has the package's config when the last call of
\* LoadConfigFromEnvVars succeeded; after a call that failed the package's
\* config has the token it had before the call.
C26_TokenAfterSuccess ==
    /\ \A k \in 1..Len(made) :
           /\ made[k].PublicKey # <<>> /\ made[k].SecretKey # <<>>
           /\ TokenOfKeys(made[k])
    /\ (op = "LoadConfigFromEnvVars" /\ pc = "done" /\ out.err = NoErr) =>
           /\ config.PublicKey # <<>> /\ config.SecretKey # <<>>
           /\ TokenOfKeys(config)

\* The token a failed load leaves is the one from before the call.
C26_FailedLoadKeepsToken ==
    [][ (pc = "idle" /\ op' = "LoadConfigFromEnvVars" /\ out'.err # NoErr) =>
            config'.Base64Token = config.Base64Token ]_vars

\* Both keys in the package's config after a failed load, and no token.
C26_WitnessStale ==
    /\ op = "LoadConfigFromEnvVars" /\ pc = "done" /\ out.err # NoErr
    /\ config.PublicKey = <<"p">> /\ config.SecretKey = <<"s">>
    /\ config.Base64Token = <<>>

-----------------------------------------------------------------------------
(* C27 *)

\* This step is a constructor of a Client returning.
Constructs ==
    pc = "idle" /\ pc' = "done" /\ op' \in {"NewClient", "NewClientWithConfig"}

\* A request is made through the client.
Requesting == op = "Do" /\ pc # "idle"

\* C27: once NewClient or NewClientWithConfig has returned a client, no step
\* that is not a constructor (LoadConfigFromEnvVars, NewConfig, an assignment to
\* a field of a Config, a step of a request) changes the URL or the token of the
\* client, and every request made on it goes to the client's URL with the
\* client's token (none is sent when the client has no token).
C27_CredentialsFixed ==
    /\ [][ ~Constructs => client' = client ]_vars
    /\ [] ( Requesting =>
              /\ req.url = client.baseUrl \o args.uri
              /\ IF client.base64Token = <<>>
                 THEN pc = "done" /\ wire = <<>>
                 ELSE Carries(req, "Authorization", "Basic", client.base64Token)
              /\ \A k \in 1..Len(wire) :
                     /\ SubSeq(wire[k].url, 1, Len(client.baseUrl)) = client.baseUrl
                     /\ Carries(wire[k], "Authorization", "Basic", client.base64Token) )

\* A request on a client made from the package's config, sent after the
\* config was loaded again with another server and another key.
C27_Witness ==
    /\ Requesting /\ Len(wire) >= 1
    /\ client.baseUrl = <<"http://host">>
    /\ client.base64Token = Token(<<"p">>, <<"s">>)
    /\ config.ServerUrl = <<"http://other">>
    /\ config.Base64Token = Token(<<"p", "k">>, <<"s">>)

\* A request on a client made from a Config whose fields were written since.
C27_WitnessWritten ==
    /\ Requesting /\ Len(wire) >= 1
    /\ client.baseUrl = <<"http://host">>
    /\ client.base64Token = Token(<<"p">>, <<"s">>)
    /\ Len(made) = 1 /\ made[1].ServerUrl = <<"http://other">>
    /\ made[1].Base64Token = <<>>

-----------------------------------------------------------------------------
(* C28 *)

\* What the call c returns when it has sent requests: the classified response
\* the transport handed back, or the transport's error.
OutcomeAlone(c) ==
    LET n == Len(c.hist)
    IN  IF HandsBack(c.hist[n])
        THEN Classify(c.hist[n], ~c.readErr)
        ELSE Fail(Wrap("error making request", GivingUp(n, c.hist[n])))

\* The call c is where a call with its arguments, alone on the client, is after
\* the responses c has got: the same request, sent once per response, as many
\* attempts as the retry policy makes for these responses, the same outcome.
AsAlone(c) ==
    c.pc # "idle" =>
        LET early == EarlyError(client, c.args.method, c.args.uri, c.args.payload)
            n == Len(c.hist)
        IN  IF early # NoErr
            THEN c.pc = "done" /\ n = 0 /\ c.wire = <<>> /\ c.ret = Fail(early)
            ELSE /\ c.req.method = DefaultMethod(c.args.method)
                 /\ c.req.url = client.baseUrl \o c.args.uri
                 /\ c.req.hasBody = (c.args.payload # "nil")
                 /\ c.req.headers = SetHeaders(NoReq, client.base64Token).headers
                 /\ Len(c.wire) = n
                 /\ \A k \in 1..n : c.wire[k] = OnWire(c.req)
                 /\ n <= client.retryMax + 1
                 /\ \A k \in 1..(n - 1) : Retries(client, k - 1, c.hist[k])
                 /\ c.pc = "sending" =>
                        /\ c.i = n
                        /\ n > 0 => Retries(client, n - 1, c.hist[n])
                 /\ c.pc \in {"reading", "done"} =>
                        n > 0 /\ ~Retries(client, n - 1, c.hist[n])
                 /\ c.pc = "reading" => HandsBack(c.hist[n]) /\ c.resp = c.hist[n]
                 /\ c.pc = "done" => c.ret = OutcomeAlone(c)

\* C28: with two calls running concurrently on one client, under every
\* interleaving of their steps no step writes the client, and each call has the
\* URL, the headers, the number of attempts and the outcome it has when it runs
\* alone and gets the same responses.
C28_ConcurrentCallsAsAlone ==
    /\ [][client' = client]_vars
    /\ [](AsAlone(Running) /\ AsAlone(other))

\* Both calls are in flight, to different URLs, one between two attempts and
\* the other with its response in hand.
C28_Witness ==
    /\ pc = "sending" /\ Len(hist) >= 1
    /\ other.pc = "reading"
    /\ args.uri # other.args.uri
    /\ req.url # other.req.url
    /\ hist[1] # other.hist[1]

\* Both calls have returned, one with a body and one with an error.
C28_WitnessDone ==
    /\ pc = "done" /\ other.pc = "done"
    /\ ret.err = NoErr /\ other.ret.err # NoErr
    /\ Len(hist) = 1 /\ Len(other.hist) = client.retryMax + 1

-----------------------------------------------------------------------------
(* C29 *)

\* The outcomes of a call of DoWithBody that has returned.
SuccessBody == ret.err = NoErr /\ ~ret.isNil

ErrorIs(msg) == ret.err # NoErr /\ ret.isNil /\ ret.err[1].msg = msg

\* How many of the outcomes named in msgs, and of the success, the call has.
OutcomesAmong(msgs) ==
    Cardinality({m \in msgs : ErrorIs(m)}) + (IF SuccessBody THEN 1 ELSE 0)

\* The outcomes the claim names: client error, server error, transport error,
\* serialization error, missing credentials.
ClaimedErrors ==
    {"client error", "server error", "error making request",
     "error marshalling request body", "Base64 token is required"}

\* A call of Do or DoWithBody is in progress or has returned.
InCall == op \in {"Do", "DoWithBody"} /\ pc # "idle"

C29_WitnessCreate ==
    InCall /\ Done /\ Sent = 0 /\ ErrorIs("error creating request")

-----------------------------------------------------------------------------
(* C30 *)

\* This step is a call of LoadConfigFromEnvVars that returns an error.
LoadFails ==
    pc = "idle" /\ pc' = "done" /\ op' = "LoadConfigFromEnvVars" /\ out'.err # NoErr

\* The URL and the token NewClient() copies from the package's config cfg.
CredentialsFrom(cfg) == [baseUrl |-> cfg.ServerUrl, base64Token |-> cfg.Base64Token]

\* C30: a call of LoadConfigFromEnvVars that returns an error leaves every field
\* of the package's config as it was, so that NewClient() gets the same URL and
\* token after the call as before it.
C30_FailedLoadLeavesConfig ==
    [][ LoadFails =>
            /\ config' = config
            /\ CredentialsFrom(config') = CredentialsFrom(config) ]_vars

\* C30, for what the code does: a call that returns an error leaves the token as
\* it was, and each of ServerUrl, PublicKey and SecretKey either as it was or
\* set to the value of its variable in the environment of the call; the field
\* whose variable is unset or empty is left as it was.
C30_FailedLoadWritesSetVariables ==
    [][ LoadFails =>
            /\ config'.Base64Token = config.Base64Token
            /\ config'.ServerUrl = IF args'.LANGFUSE_SERVER_URL # <<>>
                                   THEN args'.LANGFUSE_SERVER_URL ELSE config.ServerUrl
            /\ config'.PublicKey = IF args'.LANGFUSE_PUBLIC_KEY # <<>>
                                   THEN args'.LANGFUSE_PUBLIC_KEY ELSE config.PublicKey
            /\ config'.SecretKey = IF args'.LANGFUSE_SECRET_KEY # <<>>
                                   THEN args'.LANGFUSE_SECRET_KEY ELSE config.SecretKey ]_vars

\* A failed load has put a server URL in the package's config, which has no
\* token.
C30_WitnessUrlWritten ==
    /\ op = "LoadConfigFromEnvVars" /\ pc = "done" /\ out.err # NoErr
    /\ args.LANGFUSE_SERVER_URL = <<"http://other">> /\ args.LANGFUSE_PUBLIC_KEY = <<>>
    /\ config.ServerUrl = <<"http://other">>
    /\ config.Base64Token = <<>>

====
